---- MODULE Spec2Model ----
(***************************************************************************)
(* Folder/file search and STL copy tool (src/folder_copy.py).              *)
(*                                                                         *)
(* File names and subfolder names are sequences of one-character strings,  *)
(* so that lower(), endswith() and the substring tests are computed the    *)
(* way the code computes them.  A directory is a record [root, rel]: the   *)
(* predefined root path it lives under and the components below that      *)
(* root; a file is a record [dir, name].                                   *)
(***************************************************************************)
EXTENDS Integers, Sequences, FiniteSets, TLC

(***************************************************************************)
(* Character sequences: str.lower(), str.upper(), endswith, `in`, strip.   *)
(***************************************************************************)
UpperLetters == <<"A","B","C","D","E","F","G","H","I","J","K","L","M",
                  "N","O","P","Q","R","S","T","U","V","W","X","Y","Z">>
LowerLetters == <<"a","b","c","d","e","f","g","h","i","j","k","l","m",
                  "n","o","p","q","r","s","t","u","v","w","x","y","z">>

LowerChar(c) ==
    IF \E i \in 1..Len(UpperLetters) : UpperLetters[i] = c
    THEN LowerLetters[CHOOSE i \in 1..Len(UpperLetters) : UpperLetters[i] = c]
    ELSE c

UpperChar(c) ==
    IF \E i \in 1..Len(LowerLetters) : LowerLetters[i] = c
    THEN UpperLetters[CHOOSE i \in 1..Len(LowerLetters) : LowerLetters[i] = c]
    ELSE c

Lower(s) == [i \in 1..Len(s) |-> LowerChar(s[i])]

Upper(s) == [i \in 1..Len(s) |-> UpperChar(s[i])]

EndsWith(s, suffix) ==
    /\ Len(s) >= Len(suffix)
    /\ SubSeq(s, Len(s) - Len(suffix) + 1, Len(s)) = suffix

\* Python's `sub in s` for strings.
Contains(s, sub) ==
    \E i \in 1..(Len(s) - Len(sub) + 1) : SubSeq(s, i, i + Len(sub) - 1) = sub

\* any(keyword in file_lower for keyword in KEYWORDS)
AnyKeywordIn(keywords, file_lower) == \E keyword \in keywords : Contains(file_lower, keyword)

RECURSIVE LStrip(_)
LStrip(s) == IF s # <<>> /\ Head(s) = " " THEN LStrip(Tail(s)) ELSE s

RECURSIVE RStrip(_)
RStrip(s) == IF s # <<>> /\ s[Len(s)] = " " THEN RStrip(SubSeq(s, 1, Len(s) - 1)) ELSE s

Strip(s) == RStrip(LStrip(s))

(***************************************************************************)
(* Configuration (lines 9-28).                                             *)
(***************************************************************************)
PREDEFINED_PATHS ==
    [label \in {"Model Material", "Exocad", "InHouse Printing"} |->
        CASE label = "Model Material" -> "\\\\Skdla-sa-nas01\\skdla-sa\\3Shape Design Output\\Model Material"
          [] label = "Exocad" -> "\\\\Skdla-sa-nas01\\skdla-sa\\CAD-Data -- Exocad"
          [] label = "InHouse Printing" -> "\\\\KDC-LABSERVER\\CadCam\\! INHOUSE PRINTING !"]

INHOUSE_PRINTING_PATH == [root |-> PREDEFINED_PATHS["InHouse Printing"], rel |-> <<>>]

MODEL_BASE_PATH ==
    [root |-> PREDEFINED_PATHS["InHouse Printing"], rel |-> << <<".","M","O","D","E","L","S">> >>]

TISSUE_BASE_PATH ==
    [root |-> PREDEFINED_PATHS["InHouse Printing"], rel |-> << <<"T","I","S","S","U","E">> >>]

EXOCAD_SOURCE_PATH == PREDEFINED_PATHS["Exocad"]

KwModelbase == <<"m","o","d","e","l","b","a","s","e">>
KwModel == <<"m","o","d","e","l">>
KwTissue == <<"t","i","s","s","u","e">>
KwGingiva == <<"g","i","n","g","i","v","a">>
KwModelgingiva == <<"m","o","d","e","l","g","i","n","g","i","v","a">>
KwAntag == <<"a","n","t","a","g">>
KwTooth == <<"t","o","o","t","h">>
KwTeeth == <<"t","e","e","t","h">>
KwDie == <<"d","i","e">>
DotStl == <<".","s","t","l">>

EXOCAD_ALLOWED_KEYWORDS == {KwModelbase, KwModel, KwTissue, KwGingiva}

EXOCAD_TISSUE_KEYWORDS == {KwModelgingiva, KwTissue, KwGingiva}

MODEL_DISPLAY_SIZE_KEYWORDS == {KwModel, KwAntag, KwTooth, KwTeeth, KwDie, KwModelbase}

SIZE_LIMIT_MB == 620

SIZE_LIMIT_BYTES == SIZE_LIMIT_MB * 1024 * 1024


(***************************************************************************)
(* The file system and the program state.                                  *)
(***************************************************************************)
VARIABLES
    fs_dirs,         \* the directories that exist
    fs_files,        \* file path -> the source file its content was copied from
    session_state,   \* st.session_state: one field per key
    analysis_log,    \* the last analysis pass: the files whose size could not be
                     \* read (stat_fail), the directories that could not be
                     \* listed (walk_fail) and its per-file decisions (entries)
    pc,              \* position of the copy_items invocation
    call,            \* arguments of the copy_items invocation
    loc,             \* local variables of the copy_items invocation
    messages,        \* status messages copy_items has emitted (st.warning/error/success)
    opened,          \* calls of open_folder_in_explorer, in order
    env_added,       \* files other programs have put on the shares meanwhile
    helper_call,     \* the last call of a helper function (the two search functions,
                     \* is_valid_foldername): its arguments, the failures it met and
                     \* what it returned
    copy_history     \* what each earlier copy_items invocation of the session left
                     \* behind: the files it had written and its error count

vars == <<fs_dirs, fs_files, session_state, analysis_log, pc, call, loc, messages, opened,
          env_added, helper_call, copy_history>>

\* os.path.join(dir, name) for a directory and one more component.
JoinDir(dir, name) == [root |-> dir.root, rel |-> Append(dir.rel, name)]

\* os.path.join(root, file)
JoinFile(dir, file) == [dir |-> dir, name |-> file]

\* os.path.basename(file_path)
Basename(file_path) == file_path.name

\* os.path.isdir(path)
IsDir(path) == path \in fs_dirs

\* folder_path.startswith(EXOCAD_SOURCE_PATH): a folder path is its root path
\* followed by the components below it, and no root path is a prefix of another.
StartsWithRoot(folder_path, root_path) == folder_path.root = root_path

RECURSIVE SetToSeq(_)
\* the order in which os.scandir lists a set of entries: fixed, but arbitrary
SetToSeq(S) ==
    IF S = {} THEN <<>>
    ELSE LET x == CHOOSE y \in S : TRUE IN <<x>> \o SetToSeq(S \ {x})

SubDirsOf(dir) ==
    {d \in fs_dirs : /\ d.root = dir.root
                     /\ Len(d.rel) = Len(dir.rel) + 1
                     /\ SubSeq(d.rel, 1, Len(dir.rel)) = dir.rel}

FileNamesIn(dir) == {f.name : f \in {g \in DOMAIN fs_files : g.dir = dir}}

RECURSIVE WalkAllSkipping(_, _)
RECURSIVE WalkSkipping(_, _)
\* os.walk(top), top-down, onerror=None: one (root, dirs, files) entry per
\* directory of the subtree; a top that is no directory, or whose os.scandir
\* raises (unlistable), yields nothing and the walk goes on with the next one.
WalkSkipping(top, unlistable) ==
    IF ~IsDir(top) \/ top \in unlistable THEN <<>>
    ELSE LET dirs == SetToSeq(SubDirsOf(top))
         IN  <<[root |-> top, dirs |-> dirs, files |-> SetToSeq(FileNamesIn(top))]>>
             \o WalkAllSkipping(dirs, unlistable)

WalkAllSkipping(dirs, unlistable) ==
    IF dirs = <<>> THEN <<>>
    ELSE WalkSkipping(Head(dirs), unlistable) \o WalkAllSkipping(Tail(dirs), unlistable)

\* os.walk(top) when every directory can be listed
Walk(top) == WalkSkipping(top, {})

WalkAll(dirs) == WalkAllSkipping(dirs, {})

RECURSIVE WalkFiles(_)
\* the files of a walk, in the order the nested loops visit them:
\* for root, dirs, files in os.walk(...): for file in files: os.path.join(root, file)
WalkFiles(walk) ==
    IF walk = <<>> THEN <<>>
    ELSE [i \in 1..Len(Head(walk).files) |-> JoinFile(Head(walk).root, Head(walk).files[i])]
         \o WalkFiles(Tail(walk))

RECURSIVE WalkItemCount(_)
\* items_in_this_folder += len(dirs) + len(files), over the whole walk
WalkItemCount(walk) ==
    IF walk = <<>> THEN 0
    ELSE Len(Head(walk).dirs) + Len(Head(walk).files) + WalkItemCount(Tail(walk))

(***************************************************************************)
(* File classification, as the loops of the analysis and copy passes       *)
(* compute it inline.                                                      *)
(***************************************************************************)
\* file_lower.endswith('.stl')
IsStl(file) == EndsWith(Lower(file), DotStl)

\* is_exocad_origin = (origin_label == "Exocad" and EXOCAD_SOURCE_PATH and
\*                     folder_path.startswith(EXOCAD_SOURCE_PATH))
IsExocadOrigin(folder_path, origin_label) ==
    /\ origin_label = "Exocad"
    /\ EXOCAD_SOURCE_PATH # ""
    /\ StartsWithRoot(folder_path, EXOCAD_SOURCE_PATH)

\* should_process_stl / should_copy_this_stl
PassesExocadFilter(file, is_exocad_origin) ==
    ~(is_exocad_origin /\ ~AnyKeywordIn(EXOCAD_ALLOWED_KEYWORDS, Lower(file)))

\* is_tissue_file
IsTissueFile(file, is_exocad_origin) ==
    IF is_exocad_origin /\ AnyKeywordIn(EXOCAD_TISSUE_KEYWORDS, Lower(file)) THEN TRUE
    ELSE IF ~is_exocad_origin
            /\ (Contains(Lower(file), KwTissue) \/ Contains(Lower(file), KwGingiva)) THEN TRUE
    ELSE FALSE

\* any(keyword in file_lower for keyword in MODEL_DISPLAY_SIZE_KEYWORDS)
MatchesDisplayKeywords(file) == AnyKeywordIn(MODEL_DISPLAY_SIZE_KEYWORDS, Lower(file))

(***************************************************************************)
(* Python values held in the session state.  A dict is a sequence of       *)
(* [key, value] entries with distinct keys (insertion order is iteration   *)
(* order), a list a sequence of elements; dtype keeps {} apart from [] and *)
(* from None, as == and isinstance do.                                     *)
(***************************************************************************)
PyNone == [dtype |-> "None", items |-> <<>>]

PyDict(entries) == [dtype |-> "dict", items |-> entries]

PyList(elements) == [dtype |-> "list", items |-> elements]

Range(seq) == {seq[i] : i \in 1..Len(seq)}

\* a == b: dicts compare as sets of entries, lists as sequences, a dict never
\* equals a list, and None equals only None
PyEq(a, b) ==
    IF a.dtype # b.dtype THEN FALSE
    ELSE IF a.dtype = "dict" THEN Range(a.items) = Range(b.items)
    ELSE a.items = b.items

\* bool(x) / `if x:` for these values
Truthy(a) == a.dtype # "None" /\ a.items # <<>>

(***************************************************************************)
(* Analysis (lines 73-176).  stat_fail is the set of file paths for which  *)
(* os.path.getsize raises OSError during the call.                         *)
(***************************************************************************)
NameModel == <<"m","o","d","e","l",".","s","t","l">>
NameTissueModel == <<"T","i","s","s","u","e","_","M","o","d","e","l",".","S","T","L">>
NameRandom == <<"r","a","n","d","o","m",".","s","t","l">>
NameNotes == <<"n","o","t","e","s",".","t","x","t">>

FileNames == {NameModel, NameTissueModel, NameRandom, NameNotes}

\* os.path.getsize(file_path): the size is a property of the content, which
\* a copy keeps together with the name
GetSize(file_path) ==
    CASE file_path.name = NameModel -> SIZE_LIMIT_BYTES \div 2
      [] file_path.name = NameTissueModel -> 200 * 1024
      [] file_path.name = NameRandom -> 1
      [] OTHER -> 7

AnalysisStart ==
    [total_copy_size_bytes |-> 0, display_model_size_bytes |-> 0,
     non_stl_found |-> FALSE, tissue_files_present |-> FALSE,
     empty_folders_encountered |-> <<>>, log |-> <<>>]

LogEntry(file_path, in_total, in_display, sets_tissue, sets_non_stl) ==
    [file |-> file_path, in_total |-> in_total, in_display |-> in_display,
     sets_tissue |-> sets_tissue, sets_non_stl |-> sets_non_stl]

\* the loop body of lines 97-132 with every STL file added to the total,
\* whatever the Exocad allow-list says
FolderFileStep_NoAllowList(acc, file_path, is_exocad_origin, stat_fail) ==
    LET file == Basename(file_path)
        current_file_size == GetSize(file_path)
        is_tissue_file == IsTissueFile(file, is_exocad_origin)
        in_display == ~is_tissue_file /\ MatchesDisplayKeywords(file)
    IN  IF file_path \in stat_fail
        THEN [acc EXCEPT !.log = Append(@, LogEntry(file_path, FALSE, FALSE, FALSE, FALSE))]
        ELSE IF ~IsStl(file)
        THEN [acc EXCEPT !.non_stl_found = TRUE,
                         !.log = Append(@, LogEntry(file_path, FALSE, FALSE, FALSE, TRUE))]
        ELSE [acc EXCEPT
                !.total_copy_size_bytes = @ + current_file_size,
                !.tissue_files_present = @ \/ is_tissue_file,
                !.display_model_size_bytes = IF in_display THEN @ + current_file_size ELSE @,
                !.log = Append(@, LogEntry(file_path, TRUE, in_display, is_tissue_file, FALSE))]

\* the loop body of lines 97-132 with the display keywords tested before,
\* and independently of, the tissue test
FolderFileStep_DisplayBeforeTissue(acc, file_path, is_exocad_origin, stat_fail) ==
    LET file == Basename(file_path)
        current_file_size == GetSize(file_path)
        should_process_stl == PassesExocadFilter(file, is_exocad_origin)
        is_tissue_file == IsTissueFile(file, is_exocad_origin)
        in_display == MatchesDisplayKeywords(file)
    IN  IF file_path \in stat_fail
        THEN [acc EXCEPT !.log = Append(@, LogEntry(file_path, FALSE, FALSE, FALSE, FALSE))]
        ELSE IF ~IsStl(file)
        THEN [acc EXCEPT !.non_stl_found = TRUE,
                         !.log = Append(@, LogEntry(file_path, FALSE, FALSE, FALSE, TRUE))]
        ELSE IF ~should_process_stl
        THEN [acc EXCEPT !.log = Append(@, LogEntry(file_path, FALSE, FALSE, FALSE, FALSE))]
        ELSE [acc EXCEPT
                !.total_copy_size_bytes = @ + current_file_size,
                !.tissue_files_present = @ \/ is_tissue_file,
                !.display_model_size_bytes = IF in_display THEN @ + current_file_size ELSE @,
                !.log = Append(@, LogEntry(file_path, TRUE, in_display, is_tissue_file, FALSE))]

\* lines 97-132: the body of `for file in files` in get_recursive_folder_details
FolderFileStep(acc, file_path, is_exocad_origin, stat_fail) ==
    LET file == Basename(file_path)
        current_file_size == GetSize(file_path)
        should_process_stl == PassesExocadFilter(file, is_exocad_origin)
        is_tissue_file == IsTissueFile(file, is_exocad_origin)
        in_display == ~is_tissue_file /\ MatchesDisplayKeywords(file)
    IN  IF file_path \in stat_fail
        THEN [acc EXCEPT !.log = Append(@, LogEntry(file_path, FALSE, FALSE, FALSE, FALSE))]
        ELSE IF ~IsStl(file)
        THEN [acc EXCEPT !.non_stl_found = TRUE,
                         !.log = Append(@, LogEntry(file_path, FALSE, FALSE, FALSE, TRUE))]
        ELSE IF ~should_process_stl
        THEN [acc EXCEPT !.log = Append(@, LogEntry(file_path, FALSE, FALSE, FALSE, FALSE))]
        ELSE [acc EXCEPT
                !.total_copy_size_bytes = @ + current_file_size,
                !.tissue_files_present = @ \/ is_tissue_file,
                !.display_model_size_bytes = IF in_display THEN @ + current_file_size ELSE @,
                !.log = Append(@, LogEntry(file_path, TRUE, in_display, is_tissue_file, FALSE))]

RECURSIVE FolderFilesLoop_StopsAtFailure(_, _, _, _)
\* the file loop of lines 97-132 left at the first file whose getsize raises
FolderFilesLoop_StopsAtFailure(acc, file_paths, is_exocad_origin, stat_fail) ==
    IF file_paths = <<>> \/ Head(file_paths) \in stat_fail THEN acc
    ELSE FolderFilesLoop_StopsAtFailure(
             FolderFileStep(acc, Head(file_paths), is_exocad_origin, stat_fail),
             Tail(file_paths), is_exocad_origin, stat_fail)

RECURSIVE FolderFilesLoop(_, _, _, _)
FolderFilesLoop(acc, file_paths, is_exocad_origin, stat_fail) ==
    IF file_paths = <<>> THEN acc
    ELSE FolderFilesLoop(FolderFileStep(acc, Head(file_paths), is_exocad_origin, stat_fail),
                         Tail(file_paths), is_exocad_origin, stat_fail)

\* the folder loop of lines 86-138 with items_in_this_folder counting files only
FolderStep_CountsFilesOnly(acc, folder_path, origin_label, stat_fail, walk_fail) ==
    LET is_exocad_origin == IsExocadOrigin(folder_path, origin_label)
        walk == WalkSkipping(folder_path, walk_fail)
        items_in_this_folder == Len(WalkFiles(walk))
        after == FolderFilesLoop(acc, WalkFiles(walk), is_exocad_origin, stat_fail)
    IN  IF ~IsDir(folder_path)
        THEN [acc EXCEPT !.empty_folders_encountered = Append(@, folder_path)]
        ELSE IF items_in_this_folder = 0 /\ IsDir(folder_path)
        THEN [after EXCEPT !.empty_folders_encountered = Append(@, folder_path)]
        ELSE after

\* lines 86-138: the body of `for folder_path, origin_label in folder_paths_dict.items()`
FolderStep(acc, folder_path, origin_label, stat_fail, walk_fail) ==
    LET is_exocad_origin == IsExocadOrigin(folder_path, origin_label)
        walk == WalkSkipping(folder_path, walk_fail)
        items_in_this_folder == WalkItemCount(walk)
        after == FolderFilesLoop(acc, WalkFiles(walk), is_exocad_origin, stat_fail)
    IN  IF ~IsDir(folder_path)
        THEN [acc EXCEPT !.empty_folders_encountered = Append(@, folder_path)]
        ELSE IF items_in_this_folder = 0 /\ IsDir(folder_path)
        THEN [after EXCEPT !.empty_folders_encountered = Append(@, folder_path)]
        ELSE after

RECURSIVE FoldersLoop(_, _, _, _)
FoldersLoop(acc, entries, stat_fail, walk_fail) ==
    IF entries = <<>> THEN acc
    ELSE FoldersLoop(FolderStep(acc, Head(entries).key, Head(entries).value, stat_fail,
                                walk_fail),
                     Tail(entries), stat_fail, walk_fail)

\* get_recursive_folder_details(folder_paths_dict); line 141 returns
\* list(set(empty_folders_encountered))
get_recursive_folder_details(folder_paths_dict, stat_fail, walk_fail) ==
    LET acc == FoldersLoop(AnalysisStart, folder_paths_dict.items, stat_fail, walk_fail)
    IN  [acc EXCEPT !.empty_folders_encountered = SetToSeq(Range(@))]

\* lines 153-173: the body of `for file_path in file_paths` in get_file_details
FileStep(acc, file_path, stat_fail) ==
    LET file_lower == Lower(Basename(file_path))
        current_file_size == GetSize(file_path)
        in_display == AnyKeywordIn(MODEL_DISPLAY_SIZE_KEYWORDS, file_lower)
        sets_tissue == Contains(file_lower, KwTissue) \/ Contains(file_lower, KwGingiva)
    IN  IF file_path \in stat_fail
        THEN [acc EXCEPT !.log = Append(@, LogEntry(file_path, FALSE, FALSE, FALSE, FALSE))]
        ELSE IF ~EndsWith(file_lower, DotStl)
        THEN [acc EXCEPT !.total_copy_size_bytes = @ + current_file_size,
                         !.non_stl_found = TRUE,
                         !.log = Append(@, LogEntry(file_path, TRUE, FALSE, FALSE, TRUE))]
        ELSE [acc EXCEPT
                !.total_copy_size_bytes = @ + current_file_size,
                !.display_model_size_bytes = IF in_display THEN @ + current_file_size ELSE @,
                !.tissue_files_present = @ \/ sets_tissue,
                !.log = Append(@, LogEntry(file_path, TRUE, in_display, sets_tissue, FALSE))]

RECURSIVE FilesLoop(_, _, _)
FilesLoop(acc, file_paths, stat_fail) ==
    IF file_paths = <<>> THEN acc
    ELSE FilesLoop(FileStep(acc, Head(file_paths), stat_fail), Tail(file_paths), stat_fail)

\* get_file_details(file_paths)
get_file_details(file_paths, stat_fail) == FilesLoop(AnalysisStart, file_paths.items, stat_fail)

(***************************************************************************)
(* is_valid_foldername (lines 343-350).                                    *)
(***************************************************************************)
\* the character class [<>:"/\\|?*\x00-\x1F]; of the control characters the
\* ones a TLA+ string can hold
InvalidNameChars == {"<", ">", ":", "\"", "/", "\\", "|", "?", "*", "\t", "\n", "\r", "\f"}

DigitsOneToNine == {"1", "2", "3", "4", "5", "6", "7", "8", "9"}

ReservedNames ==
    {<<"C","O","N">>, <<"P","R","N">>, <<"A","U","X">>, <<"N","U","L">>}
    \cup {<<"C","O","M",d>> : d \in DigitsOneToNine}
    \cup {<<"L","P","T",d>> : d \in DigitsOneToNine}

\* s.split('.')[0]
BeforeFirstDot(s) ==
    IF \E i \in 1..Len(s) : s[i] = "."
    THEN SubSeq(s, 1, (CHOOSE i \in 1..Len(s) :
                          s[i] = "." /\ \A j \in 1..(i - 1) : s[j] # ".") - 1)
    ELSE s

\* the check with the reserved names compared in the case they are typed in
is_valid_foldername_CaseSensitive(foldername) ==
    IF foldername = <<>> THEN FALSE
    ELSE IF \E i \in 1..Len(foldername) : foldername[i] \in InvalidNameChars THEN FALSE
    ELSE IF BeforeFirstDot(foldername) \in ReservedNames THEN FALSE
    ELSE IF EndsWith(foldername, <<".">>) \/ EndsWith(foldername, <<" ">>) THEN FALSE
    ELSE TRUE

is_valid_foldername(foldername) ==
    IF foldername = <<>> THEN FALSE
    ELSE IF \E i \in 1..Len(foldername) : foldername[i] \in InvalidNameChars THEN FALSE
    ELSE IF BeforeFirstDot(Upper(foldername)) \in ReservedNames THEN FALSE
    ELSE IF EndsWith(foldername, <<".">>) \/ EndsWith(foldername, <<" ">>) THEN FALSE
    ELSE TRUE

(***************************************************************************)
(* The inputs the model draws: source folders, file trees, copy plans.     *)
(***************************************************************************)
MaxFiles == 2

CaseName == <<"2","5","-","1">>

FolderA == [root |-> PREDEFINED_PATHS["Model Material"], rel |-> <<CaseName>>]

FolderASub == JoinDir(FolderA, <<"s","u","b">>)

FolderE == [root |-> PREDEFINED_PATHS["Exocad"], rel |-> <<CaseName>>]

InHouseJobs == JoinDir(INHOUSE_PRINTING_PATH, <<"j","o","b","s">>)

\* found_folders_cache entries as the folder search leaves them: the origin
\* label is the label of the root the folder was found under
EntryA == [key |-> FolderA, value |-> "Model Material"]

EntryE == [key |-> FolderE, value |-> "Exocad"]

FolderSelections == {<<>>, <<EntryA>>, <<EntryE>>, <<EntryA, EntryE>>}

FolderTreePaths == {JoinFile(d, n) : d \in {FolderA, FolderASub, FolderE}, n \in FileNames}

InHouseTreePaths == {JoinFile(InHouseJobs, n) : n \in FileNames}

SmallSubsets(S) == {T \in SUBSET S : Cardinality(T) <= MaxFiles}

NameP == <<"P">>

NameSlash == <<"a","/","b">>

SubfolderNames == {NameP, NameSlash}

CopyModes == {"Directly into Base", "Into a New Subfolder"}

\* a stream's (mode, subfolder name): the name widget only exists in
\* new-subfolder mode, and the default name is ''
StreamPlans ==
    {[mode |-> "Directly into Base", name |-> <<>>]}
    \cup {[mode |-> "Into a New Subfolder", name |-> n] : n \in SubfolderNames}

\* the destination directories that exist when the tool starts
FolderDestinationStates ==
    { {INHOUSE_PRINTING_PATH, MODEL_BASE_PATH, TISSUE_BASE_PATH},
      {INHOUSE_PRINTING_PATH, TISSUE_BASE_PATH},
      {INHOUSE_PRINTING_PATH, MODEL_BASE_PATH} }

FileDestinationStates == { {INHOUSE_PRINTING_PATH, MODEL_BASE_PATH, TISSUE_BASE_PATH}, {} }

\* the directories of a selected folder's subtree
TreeDirs(selection) ==
    UNION {{e.key, JoinDir(e.key, <<"s","u","b">>)} : e \in Range(selection)}

default_state ==
    [selected_folder_paths |-> PyDict(<<>>),
     selected_items_to_copy |-> PyNone,
     found_file_paths |-> PyList(<<>>),
     last_selected_paths_for_items |-> PyDict(<<>>),
     model_copy_mode |-> "Directly into Base", model_new_folder_name |-> <<>>,
     tissue_copy_mode |-> "Directly into Base", tissue_new_folder_name |-> <<>>,
     tissue_files_found_in_selection |-> FALSE,
     empty_selected_folders_list |-> <<>>,
     total_copy_selected_size |-> 0, display_model_selected_size |-> 0,
     non_stl_in_selection |-> FALSE,
     search_mode |-> "folder",
     search_terms |-> <<>>, selected_search_paths |-> <<>>, last_search_terms |-> <<>>,
     found_folders_cache |-> PyDict(<<>>), selected_display_names |-> <<>>,
     app_just_reset |-> FALSE,
     \* keys the script adds: the check boxes (line 420) and last_selected_paths
     \* (line 537), before their first assignment
     checkbox |-> [path_name \in {"Model Material", "Exocad", "InHouse Printing"} |-> "missing"],
     last_selected_paths |-> <<>>]

NoHelperCall == [function |-> "none"]

NoCall == [items_to_process |-> PyNone, search_mode |-> "folder", open_destination |-> FALSE]

NoLocals ==
    [total_stl_to_copy |-> 0, current_copied_count |-> 0, error_count |-> 0,
     final_destination_paths_used |-> {}, queue |-> <<>>, attempted |-> <<>>,
     target_dir |-> INHOUSE_PRINTING_PATH]

InitFolderMode ==
    \E selection \in FolderSelections, model_plan \in StreamPlans,
       tissue_plan \in StreamPlans, dest \in FolderDestinationStates :
      \E files \in SmallSubsets({f \in FolderTreePaths : f.dir \in TreeDirs(selection)}) :
        /\ fs_dirs = {FolderA, FolderE} \cup {f.dir : f \in files} \cup dest
        /\ fs_files = [f \in files |-> f]
        /\ session_state =
             [default_state EXCEPT
                !.selected_folder_paths = PyDict(selection),
                !.model_copy_mode = model_plan.mode,
                !.model_new_folder_name = model_plan.name,
                !.tissue_copy_mode = tissue_plan.mode,
                !.tissue_new_folder_name = tissue_plan.name]

InitFileMode ==
    \E files \in SmallSubsets({f \in InHouseTreePaths : IsStl(f.name)}),
       model_plan \in StreamPlans, dest \in FileDestinationStates :
        /\ fs_dirs = dest \cup (IF INHOUSE_PRINTING_PATH \in dest THEN {InHouseJobs} ELSE {})
        /\ fs_files = [f \in (IF INHOUSE_PRINTING_PATH \in dest THEN files ELSE {}) |-> f]
        /\ session_state =
             [default_state EXCEPT
                !.search_mode = "file",
                !.found_file_paths = PyList(SetToSeq(files)),
                !.last_selected_paths_for_items = PyList(<<>>),
                !.model_copy_mode = model_plan.mode,
                !.model_new_folder_name = model_plan.name]

Init ==
    /\ InitFolderMode \/ InitFileMode
    /\ analysis_log = [stat_fail |-> {}, walk_fail |-> {}, entries |-> <<>>]
    /\ pc = "idle"
    /\ call = NoCall
    /\ loc = NoLocals
    /\ messages = <<>>
    /\ opened = <<>>
    /\ env_added = {}
    /\ helper_call = NoHelperCall
    /\ copy_history = <<>>

(***************************************************************************)
(* Analysis triggers of the script (lines 496-518 and 582-603).            *)
(***************************************************************************)
MaxUnreadable == 1

Unreadable(file_paths, max_unreadable) ==
    {U \in SUBSET file_paths : Cardinality(U) <= max_unreadable}

MaxUnlistable == 1

\* the directories of the selected subtrees whose os.scandir raises
Unlistable(folder_paths_dict, max_unlistable) ==
    {U \in SUBSET {d \in fs_dirs : \E e \in Range(folder_paths_dict.items) :
                                     /\ d.root = e.key.root
                                     /\ Len(d.rel) >= Len(e.key.rel)
                                     /\ SubSeq(d.rel, 1, Len(e.key.rel)) = e.key.rel} :
        Cardinality(U) <= max_unlistable}

\* getsize raises for the files the environment makes unreadable and for
\* the listed files that no longer exist
StatFailures(unreadable, file_paths) ==
    unreadable \cup {f \in file_paths : f \notin DOMAIN fs_files}

SelectedTreeFiles(folder_paths_dict, walk_fail) ==
    UNION {Range(WalkFiles(WalkSkipping(e.key, walk_fail))) :
              e \in Range(folder_paths_dict.items)}

StoreAnalysis(items, result, marker) ==
    [session_state EXCEPT
        !.selected_items_to_copy = items,
        !.total_copy_selected_size = result.total_copy_size_bytes,
        !.display_model_selected_size = result.display_model_size_bytes,
        !.non_stl_in_selection = result.non_stl_found,
        !.tissue_files_found_in_selection = result.tissue_files_present,
        !.empty_selected_folders_list = result.empty_folders_encountered,
        !.last_selected_paths_for_items = marker]

\* lines 582-596: the folder selection differs from the analysed one and is
\* not empty
AnalyzeFoldersWith(max_unreadable, max_unlistable) ==
    LET current_selected_paths_dict == session_state.selected_folder_paths
    IN  /\ pc = "idle"
        /\ session_state.search_mode = "folder"
        /\ ~PyEq(current_selected_paths_dict, session_state.last_selected_paths_for_items)
        /\ Truthy(current_selected_paths_dict)
        /\ \E walk_fail \in Unlistable(current_selected_paths_dict, max_unlistable) :
           \E unreadable \in Unreadable(SelectedTreeFiles(current_selected_paths_dict,
                                                          walk_fail), max_unreadable) :
             LET stat_fail == StatFailures(unreadable, {})
                 result == get_recursive_folder_details(current_selected_paths_dict, stat_fail,
                                                        walk_fail)
             IN  /\ session_state' = StoreAnalysis(current_selected_paths_dict, result,
                                                   current_selected_paths_dict)
                 /\ analysis_log' = [stat_fail |-> stat_fail, walk_fail |-> walk_fail,
                                     entries |-> result.log]
        /\ UNCHANGED <<fs_dirs, fs_files, pc, call, loc, messages, opened, env_added,
                       helper_call, copy_history>>

\* lines 496-513: files were found and differ from the analysed list
AnalyzeFilesWith(max_unreadable) ==
    LET found_file_paths == session_state.found_file_paths
    IN  /\ pc = "idle"
        /\ session_state.search_mode = "file"
        /\ Truthy(found_file_paths)
        /\ ~PyEq(found_file_paths, session_state.last_selected_paths_for_items)
        /\ \E unreadable \in Unreadable(Range(found_file_paths.items), max_unreadable) :
             LET stat_fail == StatFailures(unreadable, Range(found_file_paths.items))
                 result == get_file_details(found_file_paths, stat_fail)
             IN  /\ session_state' =
                        [StoreAnalysis(found_file_paths, result, found_file_paths)
                            EXCEPT !.empty_selected_folders_list = <<>>]
                 /\ analysis_log' = [stat_fail |-> stat_fail, walk_fail |-> {},
                                     entries |-> result.log]
        /\ UNCHANGED <<fs_dirs, fs_files, pc, call, loc, messages, opened, env_added,
                       helper_call, copy_history>>

(***************************************************************************)
(* copy_items (lines 179-329).  pc: "idle" -> "scan" -> "pass" -> "copy"   *)
(* -> "final" -> "done" in folder mode, "idle" -> "copy" -> "final" ->     *)
(* "done" in file mode; "returned" after an early return and "raised"      *)
(* when an exception leaves the function.                                  *)
(***************************************************************************)
Msg(level, text) == [level |-> level, text |-> text]

\* os.path.join(current_base_path, current_subfolder_name): an empty name
\* gives the base path with a trailing separator, the same directory
TargetDir(base_path, copy_mode, subfolder_name) ==
    IF copy_mode = "Into a New Subfolder" /\ subfolder_name # <<>>
    THEN JoinDir(base_path, subfolder_name)
    ELSE base_path

\* the directories os.makedirs(target_dir, exist_ok=True) leaves in place
WithParents(dir) == {[root |-> dir.root, rel |-> SubSeq(dir.rel, 1, k)] : k \in 0..Len(dir.rel)}

\* the validation of lines 203-208 without the model subfolder name test
FolderModeValidation_NoModelNameTest ==
    LET tissue_files_found_in_analysis == session_state.tissue_files_found_in_selection
    IN  IF ~IsDir(MODEL_BASE_PATH) THEN "Model Folder Destination invalid"
        ELSE IF tissue_files_found_in_analysis /\ ~IsDir(TISSUE_BASE_PATH)
        THEN "Tissue Destination invalid"
        ELSE IF /\ tissue_files_found_in_analysis
                /\ session_state.tissue_copy_mode = "Into a New Subfolder"
                /\ ~is_valid_foldername(Strip(session_state.tissue_new_folder_name))
        THEN "Invalid Tissue subfolder name."
        ELSE ""

\* lines 203-208: the first failing validation of folder mode, "" when all pass
FolderModeValidation ==
    LET model_copy_mode == session_state.model_copy_mode
        model_subfolder_name == Strip(session_state.model_new_folder_name)
        tissue_copy_mode == session_state.tissue_copy_mode
        tissue_subfolder_name == Strip(session_state.tissue_new_folder_name)
        tissue_files_found_in_analysis == session_state.tissue_files_found_in_selection
        model_base_valid == IsDir(MODEL_BASE_PATH)
        tissue_base_valid == IF tissue_files_found_in_analysis THEN IsDir(TISSUE_BASE_PATH) ELSE TRUE
    IN  IF ~model_base_valid THEN "Model Folder Destination invalid"
        ELSE IF ~tissue_base_valid /\ tissue_files_found_in_analysis THEN "Tissue Destination invalid"
        ELSE IF model_copy_mode = "Into a New Subfolder" /\ ~is_valid_foldername(model_subfolder_name)
        THEN "Invalid Model subfolder name."
        ELSE IF /\ tissue_files_found_in_analysis
                /\ tissue_copy_mode = "Into a New Subfolder"
                /\ ~is_valid_foldername(tissue_subfolder_name)
        THEN "Invalid Tissue subfolder name."
        ELSE ""

\* lines 272-274: the first failing validation of file mode, "" when all pass
FileModeValidation ==
    LET copy_mode == session_state.model_copy_mode
        subfolder_name == Strip(session_state.model_new_folder_name)
        inhouse_base_valid == IsDir(INHOUSE_PRINTING_PATH)
    IN  IF ~inhouse_base_valid THEN "InHouse Printing path invalid"
        ELSE IF copy_mode = "Into a New Subfolder" /\ ~is_valid_foldername(subfolder_name)
        THEN "Invalid subfolder name."
        ELSE ""

Return(message) ==
    /\ messages' = Append(messages, message)
    /\ pc' = "returned"

\* lines 183-208: entry of copy_items in folder mode, up to the pre-scan
EnterFolderMode ==
    IF FolderModeValidation # ""
    THEN /\ Return(Msg("error", FolderModeValidation))
         /\ UNCHANGED <<fs_dirs, loc>>
    ELSE /\ pc' = "scan"
         /\ loc' = NoLocals
         /\ UNCHANGED <<fs_dirs, messages>>

\* lines 267-290: entry of copy_items in file mode, up to the copy loop
EnterFileMode(source_file_paths) ==
    LET target_dir == TargetDir(INHOUSE_PRINTING_PATH, session_state.model_copy_mode,
                                Strip(session_state.model_new_folder_name))
    IN  IF FileModeValidation # ""
        THEN /\ Return(Msg("error", FileModeValidation))
             /\ UNCHANGED <<fs_dirs, loc>>
        ELSE IF Len(source_file_paths.items) = 0
        THEN /\ Return(Msg("warning", "No files found to copy."))
             /\ UNCHANGED <<fs_dirs, loc>>
        ELSE \/ /\ fs_dirs' = fs_dirs \cup WithParents(target_dir)
                /\ loc' = [NoLocals EXCEPT
                              !.total_stl_to_copy = Len(source_file_paths.items),
                              !.target_dir = target_dir,
                              !.final_destination_paths_used = {target_dir},
                              !.queue = [i \in 1..Len(source_file_paths.items) |->
                                            [source |-> source_file_paths.items[i],
                                             is_exocad_origin |-> FALSE]]]
                /\ pc' = "copy"
                /\ UNCHANGED messages
             \/ /\ ~IsDir(target_dir)      \* os.makedirs raises OSError
                /\ Return(Msg("error", "Error creating destination"))
                /\ UNCHANGED <<fs_dirs, loc>>

\* lines 179-290: copy_items from its call to the first loop
copy_items(items_to_process, search_mode, open_destination) ==
    /\ call' = [items_to_process |-> items_to_process, search_mode |-> search_mode,
                open_destination |-> open_destination]
    /\ IF ~Truthy(items_to_process)
       THEN /\ Return(Msg("warning", "No items selected or found to copy."))
            /\ UNCHANGED <<fs_dirs, loc>>
       ELSE IF search_mode = "folder" THEN EnterFolderMode
       ELSE EnterFileMode(items_to_process)
    /\ UNCHANGED <<fs_files, session_state, analysis_log, opened, env_added, helper_call>>

\* copy_items called with the arguments of lines 694-703 and 816-820, whatever
\* the state of the destinations and of the copy plan
CallCopyItems ==
    /\ pc = "idle"
    /\ \E open_destination \in BOOLEAN :
        LET search_mode == session_state.search_mode
            items_to_process == IF search_mode = "file"
                                THEN session_state.found_file_paths
                                ELSE session_state.selected_items_to_copy
        IN  copy_items(items_to_process, search_mode, open_destination)
    /\ UNCHANGED copy_history

\* lines 217-222: does the pre-scan count this file?
ScanCounts(file, is_exocad_origin_scan) ==
    /\ EndsWith(Lower(file), DotStl)
    /\ (is_exocad_origin_scan => AnyKeywordIn(EXOCAD_ALLOWED_KEYWORDS, Lower(file)))

RECURSIVE ScanTotal(_)
\* lines 212-223: total_stl_to_copy over every source folder
ScanTotal(entries) ==
    IF entries = <<>> THEN 0
    ELSE LET folder_path == Head(entries).key
             is_exocad_origin_scan == IsExocadOrigin(folder_path, Head(entries).value)
             files == WalkFiles(Walk(folder_path))
         IN  Cardinality({i \in 1..Len(files) : ScanCounts(files[i].name, is_exocad_origin_scan)})
             + ScanTotal(Tail(entries))

\* lines 210-226
PreScan ==
    /\ pc = "scan"
    /\ LET total_stl_to_copy == ScanTotal(call.items_to_process.items)
       IN  IF total_stl_to_copy = 0
           THEN /\ Return(Msg("warning", "No '.stl' files matching criteria found."))
                /\ UNCHANGED loc
           ELSE /\ loc' = [loc EXCEPT !.total_stl_to_copy = total_stl_to_copy]
                /\ pc' = "pass"
                /\ UNCHANGED messages
    /\ UNCHANGED <<fs_dirs, fs_files, session_state, analysis_log, call, opened, env_added,
                   helper_call, copy_history>>

\* the copy pass without the Exocad allow-list test of line 240
ShouldCopyThisStl_NoAllowList(file, is_exocad_origin) == EndsWith(Lower(file), DotStl)

\* lines 238-242: should_copy_this_stl
ShouldCopyThisStl(file, is_exocad_origin) ==
    /\ EndsWith(Lower(file), DotStl)
    /\ ~(is_exocad_origin /\ ~AnyKeywordIn(EXOCAD_ALLOWED_KEYWORDS, Lower(file)))

RECURSIVE CopyPassFiles(_)
\* lines 232-243: the files the copy pass reaches, in order, over every folder
CopyPassFiles(entries) ==
    IF entries = <<>> THEN <<>>
    ELSE LET folder_path == Head(entries).key
             is_exocad_origin == IsExocadOrigin(folder_path, Head(entries).value)
             files == WalkFiles(Walk(folder_path))
             Selected(f) == ShouldCopyThisStl(f.name, is_exocad_origin)
             chosen == SelectSeq(files, Selected)
         IN  [i \in 1..Len(chosen) |->
                 [source |-> chosen[i], is_exocad_origin |-> is_exocad_origin]]
             \o CopyPassFiles(Tail(entries))

\* lines 228-235: the copy pass walks the source folders again
BeginCopyPass ==
    /\ pc = "pass"
    /\ LET queue == CopyPassFiles(call.items_to_process.items)
       IN  /\ loc' = [loc EXCEPT !.queue = queue]
           /\ pc' = IF queue = <<>> THEN "final" ELSE "copy"
    /\ UNCHANGED <<fs_dirs, fs_files, session_state, analysis_log, call, messages, opened,
                   env_added, helper_call, copy_history>>

MaxAdded == 1

\* the file the environment adds: a copyable one, routed to the tissue stream
EnvFileNames == {NameTissueModel}

\* Another program writes a file into a selected source folder while
\* copy_items is between its pre-scan and its copy pass.
EnvAddFile ==
    /\ pc = "pass"
    /\ Cardinality(env_added) < MaxAdded
    /\ \E f \in FolderTreePaths \ DOMAIN fs_files :
        /\ f.name \in EnvFileNames
        /\ \E e \in Range(call.items_to_process.items) : f.dir = e.key
        /\ fs_files' = (f :> f) @@ fs_files
        /\ fs_dirs' = fs_dirs \cup {f.dir}
        /\ env_added' = env_added \cup {f}
    /\ UNCHANGED <<session_state, analysis_log, pc, call, loc, messages, opened,
                   helper_call, copy_history>>

\* the routing of lines 244-254 with the model stream's mode and name used
\* for the tissue stream too
FolderTargetDir_ModelPlanForTissue(file, is_exocad_origin) ==
    LET is_tissue_file == IsTissueFile(file, is_exocad_origin)
        current_base_path == IF is_tissue_file THEN TISSUE_BASE_PATH ELSE MODEL_BASE_PATH
    IN  TargetDir(current_base_path, session_state.model_copy_mode,
                  Strip(session_state.model_new_folder_name))

\* lines 244-254: the directory a file of the copy pass goes to
FolderTargetDir(file, is_exocad_origin) ==
    LET is_tissue_file == IsTissueFile(file, is_exocad_origin)
        current_base_path == IF is_tissue_file THEN TISSUE_BASE_PATH ELSE MODEL_BASE_PATH
        current_copy_mode == IF is_tissue_file THEN session_state.tissue_copy_mode
                             ELSE session_state.model_copy_mode
        current_subfolder_name == IF is_tissue_file
                                  THEN Strip(session_state.tissue_new_folder_name)
                                  ELSE Strip(session_state.model_new_folder_name)
    IN  TargetDir(current_base_path, current_copy_mode, current_subfolder_name)

\* What os.makedirs followed by shutil.copy2 can do: makedirs can only fail
\* when it has to create something; copy2 fails for a missing source and for
\* source = destination (SameFileError), and can fail for any other file.
CopyOutcomes(source_file_path, target_dir, destination_file_path, makes_dirs) ==
    {"copy failed"}
    \cup (IF makes_dirs /\ ~IsDir(target_dir) THEN {"makedirs failed"} ELSE {})
    \cup (IF source_file_path \in DOMAIN fs_files /\ source_file_path # destination_file_path
          THEN {"copied"} ELSE {})

\* st.progress(value) raises StreamlitAPIException unless 0.0 <= value <= 1.0
ProgressRaises(numerator, denominator) == numerator > denominator

\* a copy loop that stops at the first file that fails
AttemptCopy_AbortOnFailure(source_file_path, target_dir, makes_dirs, outcome) ==
    LET destination_file_path == JoinFile(target_dir, Basename(source_file_path))
    IN  /\ fs_dirs' = IF outcome = "makedirs failed" \/ ~makes_dirs THEN fs_dirs
                      ELSE fs_dirs \cup WithParents(target_dir)
        /\ fs_files' = IF outcome = "copied"
                       THEN (destination_file_path :> fs_files[source_file_path]) @@ fs_files
                       ELSE fs_files
        /\ messages' = IF outcome = "copied" THEN messages
                       ELSE Append(messages, Msg("error", "Error copying"))
        /\ loc' = [loc EXCEPT
                !.queue = IF outcome = "copied" THEN Tail(@) ELSE <<>>,
                !.attempted = Append(@, source_file_path),
                !.final_destination_paths_used =
                    IF outcome = "makedirs failed" THEN @ ELSE @ \cup {target_dir},
                !.current_copied_count = IF outcome = "copied" THEN @ + 1 ELSE @,
                !.error_count = IF outcome = "copied" THEN @ ELSE @ + 1]

\* a copy that keeps an existing destination file and writes beside it
AttemptCopy_KeepsBothOnCollision(source_file_path, target_dir, makes_dirs, outcome) ==
    LET file == Basename(source_file_path)
        destination_file_path ==
            IF JoinFile(target_dir, file) \in DOMAIN fs_files
            THEN JoinFile(target_dir, Append(file, "~"))
            ELSE JoinFile(target_dir, file)
    IN  /\ fs_dirs' = IF outcome = "makedirs failed" \/ ~makes_dirs THEN fs_dirs
                      ELSE fs_dirs \cup WithParents(target_dir)
        /\ fs_files' = IF outcome = "copied"
                       THEN (destination_file_path :> fs_files[source_file_path]) @@ fs_files
                       ELSE fs_files
        /\ messages' = IF outcome = "copied" THEN messages
                       ELSE Append(messages, Msg("error", "Error copying"))
        /\ loc' = [loc EXCEPT
                !.queue = Tail(@),
                !.attempted = Append(@, source_file_path),
                !.final_destination_paths_used =
                    IF outcome = "makedirs failed" THEN @ ELSE @ \cup {target_dir},
                !.current_copied_count = IF outcome = "copied" THEN @ + 1 ELSE @,
                !.error_count = IF outcome = "copied" THEN @ ELSE @ + 1]

\* the per-file try/except/finally of both copy loops (lines 256-263, 297-301)
AttemptCopy(source_file_path, target_dir, makes_dirs, outcome) ==
    LET file == Basename(source_file_path)
        destination_file_path == JoinFile(target_dir, file)
    IN  /\ fs_dirs' = IF outcome = "makedirs failed" \/ ~makes_dirs THEN fs_dirs
                      ELSE fs_dirs \cup WithParents(target_dir)
        /\ fs_files' = IF outcome = "copied"
                       THEN (destination_file_path :> fs_files[source_file_path]) @@ fs_files
                       ELSE fs_files
        /\ messages' = IF outcome = "copied" THEN messages
                       ELSE Append(messages, Msg("error", "Error copying"))
        /\ loc' = [loc EXCEPT
                !.queue = Tail(@),
                !.attempted = Append(@, source_file_path),
                !.final_destination_paths_used =
                    IF outcome = "makedirs failed" THEN @ ELSE @ \cup {target_dir},
                !.current_copied_count = IF outcome = "copied" THEN @ + 1 ELSE @,
                !.error_count = IF outcome = "copied" THEN @ ELSE @ + 1]

\* lines 236-263: one iteration of the folder-mode copy loop
CopyFolderFile ==
    /\ pc = "copy"
    /\ call.search_mode = "folder"
    /\ LET item == Head(loc.queue)
           target_dir == FolderTargetDir(Basename(item.source), item.is_exocad_origin)
       IN  \E outcome \in CopyOutcomes(item.source, target_dir,
                                       JoinFile(target_dir, Basename(item.source)), TRUE) :
              AttemptCopy(item.source, target_dir, TRUE, outcome)
    /\ pc' = IF loc'.total_stl_to_copy > 0
                /\ ProgressRaises(loc'.current_copied_count, loc'.total_stl_to_copy)
             THEN "raised"
             ELSE IF loc'.queue = <<>> THEN "final" ELSE "copy"
    /\ UNCHANGED <<session_state, analysis_log, call, opened, env_added, helper_call,
                   copy_history>>

\* lines 293-301: one iteration of the file-mode copy loop
CopyListedFile ==
    /\ pc = "copy"
    /\ call.search_mode = "file"
    /\ LET item == Head(loc.queue)
       IN  \E outcome \in CopyOutcomes(item.source, loc.target_dir,
                                       JoinFile(loc.target_dir, Basename(item.source)), FALSE) :
              AttemptCopy(item.source, loc.target_dir, FALSE, outcome)
    /\ pc' = IF ProgressRaises(Len(loc'.attempted), loc'.total_stl_to_copy) THEN "raised"
             ELSE IF loc'.queue = <<>> THEN "final" ELSE "copy"
    /\ UNCHANGED <<session_state, analysis_log, call, opened, env_added, helper_call,
                   copy_history>>

\* lines 310-318: the final status
FinalStatus(current_copied_count, error_count, total_stl_to_copy) ==
    IF current_copied_count > 0
    THEN <<Msg("success", "Successfully copied")>>
         \o (IF error_count > 0 THEN <<Msg("warning", "Note: Encountered error(s)")>> ELSE <<>>)
    ELSE IF error_count > 0 THEN <<Msg("error", "Copy failed.")>>
    ELSE IF total_stl_to_copy > 0
    THEN <<Msg("warning", "Attempted copy, but no files matching criteria were transferred")>>
    ELSE <<>>

\* the reveal of lines 323-325 without the test of the error count
RevealPaths_IgnoresErrors(open_destination, current_copied_count, error_count, paths_used) ==
    LET final_destination_paths_used == paths_used IN
    IF open_destination /\ current_copied_count > 0
    THEN SetToSeq(final_destination_paths_used)
    ELSE <<>>

\* lines 323-329: the paths handed to open_folder_in_explorer, and the notice
RevealPaths(open_destination, current_copied_count, error_count, final_destination_paths_used) ==
    IF open_destination /\ current_copied_count > 0 /\ error_count = 0
    THEN SetToSeq(final_destination_paths_used)
    ELSE <<>>

RevealNotice(open_destination, current_copied_count, error_count) ==
    IF open_destination /\ current_copied_count > 0 /\ error_count = 0
    THEN <<Msg("write", "Opening destination folder(s)...")>>
    ELSE IF open_destination /\ error_count > 0
    THEN <<Msg("warning", "Destination(s) not opened due to errors.")>>
    ELSE IF open_destination /\ current_copied_count = 0
    THEN <<Msg("warning", "Destination(s) not opened as no files copied.")>>
    ELSE <<>>

\* lines 303-329: common completion logic
Complete ==
    /\ pc = "final"
    /\ messages' = messages
            \o FinalStatus(loc.current_copied_count, loc.error_count, loc.total_stl_to_copy)
            \o RevealNotice(call.open_destination, loc.current_copied_count, loc.error_count)
    /\ opened' = opened \o RevealPaths(call.open_destination, loc.current_copied_count,
                                       loc.error_count, loc.final_destination_paths_used)
    /\ pc' = "done"
    /\ UNCHANGED <<fs_dirs, fs_files, session_state, analysis_log, call, loc, env_added,
                   helper_call, copy_history>>

\* the analysis of a selection whose files can all be read
AnalyzeFolders == AnalyzeFoldersWith(0, 0)

AnalyzeFiles == AnalyzeFilesWith(0)

Next ==
    \/ AnalyzeFolders
    \/ AnalyzeFiles
    \/ CallCopyItems
    \/ PreScan
    \/ EnvAddFile
    \/ BeginCopyPass
    \/ CopyFolderFile
    \/ CopyListedFile
    \/ Complete

Spec == Init /\ [][Next]_vars

(***************************************************************************)
(* The analysis alone, over selections some of whose files cannot be read, *)
(* some of whose directories cannot be listed and some of whose folders    *)
(* have gone since the search found them.                                  *)
(***************************************************************************)
AnalyzeFoldersUnreadable == AnalyzeFoldersWith(MaxUnreadable, MaxUnlistable)

AnalyzeFilesUnreadable == AnalyzeFilesWith(MaxUnreadable)

\* Another program removes a selected folder, with all it holds, after the
\* search listed it and before the analysis of line 587 walks it.
EnvRemoveFolder ==
    /\ pc = "idle"
    /\ session_state.search_mode = "folder"
    /\ session_state.selected_items_to_copy = PyNone
    /\ \A e \in Range(session_state.selected_folder_paths.items) : IsDir(e.key)
    /\ \E e \in Range(session_state.selected_folder_paths.items) :
          LET Inside(dir) == /\ dir.root = e.key.root
                             /\ Len(dir.rel) >= Len(e.key.rel)
                             /\ SubSeq(dir.rel, 1, Len(e.key.rel)) = e.key.rel
              kept == {f \in DOMAIN fs_files : ~Inside(f.dir)}
          IN  /\ fs_dirs' = {d \in fs_dirs : ~Inside(d)}
              /\ fs_files' = [f \in kept |-> fs_files[f]]
    /\ UNCHANGED <<session_state, analysis_log, pc, call, loc, messages, opened, env_added,
                   helper_call, copy_history>>

AnalysisNext == AnalyzeFoldersUnreadable \/ AnalyzeFilesUnreadable \/ EnvRemoveFolder

AnalysisSpec == Init /\ [][AnalysisNext]_vars

(***************************************************************************)
(* The copy section of the script (lines 689-820): the copy button and     *)
(* what disables it.  The file trees are large enough for the total copy   *)
(* size to reach and to pass SIZE_LIMIT_BYTES.                             *)
(***************************************************************************)
MaxGateFiles == 3

GateFileNames == {NameModel, NameTissueModel}

GateFolderTreePaths ==
    {JoinFile(d, n) : d \in {FolderA, FolderASub, FolderE}, n \in GateFileNames}

InHouseJobsSub == JoinDir(InHouseJobs, <<"s","u","b">>)

GateInHouseTreePaths ==
    {JoinFile(d, n) : d \in {InHouseJobs, InHouseJobsSub}, n \in GateFileNames}

GateSubsets(S) == {T \in SUBSET S : Cardinality(T) <= MaxGateFiles}

\* the name widget of a stream in new-subfolder mode starts empty
GatePlans == StreamPlans \cup {[mode |-> "Into a New Subfolder", name |-> <<>>]}

GateInitFolderMode ==
    \E selection \in FolderSelections \ {<<>>}, model_plan \in GatePlans,
       tissue_plan \in StreamPlans, dest \in FolderDestinationStates :
      \E files \in GateSubsets({f \in GateFolderTreePaths : f.dir \in TreeDirs(selection)}) :
        /\ fs_dirs = {FolderA, FolderE} \cup {f.dir : f \in files} \cup dest
        /\ fs_files = [f \in files |-> f]
        /\ session_state =
             [default_state EXCEPT
                !.selected_folder_paths = PyDict(selection),
                !.model_copy_mode = model_plan.mode,
                !.model_new_folder_name = model_plan.name,
                !.tissue_copy_mode = tissue_plan.mode,
                !.tissue_new_folder_name = tissue_plan.name]

GateInitFileMode ==
    \E files \in GateSubsets(GateInHouseTreePaths) \ {{}},
       model_plan \in GatePlans, dest \in FileDestinationStates :
        /\ fs_dirs = dest \cup (IF INHOUSE_PRINTING_PATH \in dest
                                THEN {InHouseJobs} \cup {f.dir : f \in files} ELSE {})
        /\ fs_files = [f \in (IF INHOUSE_PRINTING_PATH \in dest THEN files ELSE {}) |-> f]
        /\ session_state =
             [default_state EXCEPT
                !.search_mode = "file",
                !.found_file_paths = PyList(SetToSeq(files)),
                !.last_selected_paths_for_items = PyList(<<>>),
                !.model_copy_mode = model_plan.mode,
                !.model_new_folder_name = model_plan.name]

GateInit ==
    /\ GateInitFolderMode \/ GateInitFileMode
    /\ analysis_log = [stat_fail |-> {}, walk_fail |-> {}, entries |-> <<>>]
    /\ pc = "idle"
    /\ call = NoCall
    /\ loc = NoLocals
    /\ messages = <<>>
    /\ opened = <<>>
    /\ env_added = {}
    /\ helper_call = NoHelperCall
    /\ copy_history = <<>>

\* lines 692-703: analysis_complete
AnalysisComplete ==
    IF session_state.search_mode = "file"
    THEN /\ Truthy(session_state.found_file_paths)
         /\ PyEq(session_state.found_file_paths, session_state.last_selected_paths_for_items)
    ELSE /\ Truthy(session_state.selected_folder_paths)
         /\ PyEq(session_state.selected_folder_paths,
                 session_state.last_selected_paths_for_items)

\* lines 693-703: items_to_process
ItemsToProcess ==
    IF ~AnalysisComplete THEN PyNone
    ELSE IF session_state.search_mode = "file" THEN session_state.found_file_paths
    ELSE session_state.selected_items_to_copy

\* line 706
CanShowCopySection == Truthy(ItemsToProcess) /\ AnalysisComplete

\* lines 722-733, 753-764, 767-787: new_folder_name_valid of one stream
NewFolderNameValid(copy_mode, new_folder_name) ==
    IF copy_mode = "Into a New Subfolder"
    THEN LET current_folder_name == Strip(new_folder_name)
         IN  IF current_folder_name = <<>> THEN FALSE
             ELSE is_valid_foldername(current_folder_name)
    ELSE TRUE

ExceedsSizeLimit == session_state.total_copy_selected_size > SIZE_LIMIT_BYTES

\* the file-mode button logic without the size test of line 740
FileModeDisableCopyButton_NoSizeTest ==
    LET new_folder_name_valid == NewFolderNameValid(session_state.model_copy_mode,
                                                    session_state.model_new_folder_name)
        base_path_valid == IsDir(INHOUSE_PRINTING_PATH)
        after_base == IF ~base_path_valid THEN TRUE
                      ELSE session_state.model_copy_mode = "Into a New Subfolder"
                           /\ ~new_folder_name_valid
    IN  after_base \/ ~Truthy(ItemsToProcess)

\* lines 735-741: disable_copy_button in file mode
FileModeDisableCopyButton ==
    LET new_folder_name_valid == NewFolderNameValid(session_state.model_copy_mode,
                                                    session_state.model_new_folder_name)
        base_path_valid == IsDir(INHOUSE_PRINTING_PATH)
        after_base == IF ~base_path_valid THEN TRUE
                      ELSE session_state.model_copy_mode = "Into a New Subfolder"
                           /\ ~new_folder_name_valid
        after_size == after_base \/ ExceedsSizeLimit
    IN  after_size \/ ~Truthy(ItemsToProcess)

\* lines 790-807: disable_copy_button in folder mode
FolderModeDisableCopyButton ==
    LET tissue_files_found == session_state.tissue_files_found_in_selection
        model_new_folder_name_valid ==
            NewFolderNameValid(session_state.model_copy_mode,
                               session_state.model_new_folder_name)
        tissue_new_folder_name_valid ==
            IF tissue_files_found
            THEN NewFolderNameValid(session_state.tissue_copy_mode,
                                    session_state.tissue_new_folder_name)
            ELSE TRUE
        model_base_valid == IsDir(MODEL_BASE_PATH)
        tissue_base_valid == IF tissue_files_found THEN IsDir(TISSUE_BASE_PATH) ELSE TRUE
        after_bases == ~model_base_valid \/ (tissue_files_found /\ ~tissue_base_valid)
        after_names ==
            IF ~after_bases
            THEN \/ /\ session_state.model_copy_mode = "Into a New Subfolder"
                    /\ ~model_new_folder_name_valid
                 \/ /\ tissue_files_found
                    /\ session_state.tissue_copy_mode = "Into a New Subfolder"
                    /\ ~tissue_new_folder_name_valid
            ELSE after_bases
    IN  IF ~after_names
        THEN ~Truthy(ItemsToProcess) \/ ExceedsSizeLimit
        ELSE after_names

DisableCopyButton ==
    IF session_state.search_mode = "file" THEN FileModeDisableCopyButton
    ELSE FolderModeDisableCopyButton

\* lines 709-820: a script run that reaches the copy section with the copy
\* button pressed
CopyButtonPressed ==
    /\ pc = "idle"
    /\ CanShowCopySection
    /\ ~DisableCopyButton
    /\ \E open_dest_after_copy \in BOOLEAN :
          copy_items(ItemsToProcess, session_state.search_mode, open_dest_after_copy)
    /\ UNCHANGED copy_history

GateNext ==
    \/ AnalyzeFolders
    \/ AnalyzeFiles
    \/ CopyButtonPressed
    \/ PreScan
    \/ BeginCopyPass
    \/ CopyFolderFile
    \/ CopyListedFile
    \/ Complete

GateSpec == GateInit /\ [][GateNext]_vars

(***************************************************************************)
(* The two search functions (lines 32-71).                                 *)
(***************************************************************************)
\* the names os.scandir(root_dir) yields: subdirectories and files alike
ScandirNames(root_dir) == {d.rel[Len(d.rel)] : d \in SubDirsOf(root_dir)} \cup FileNamesIn(root_dir)

\* lines 40-43 for one entry: entry.is_dir() raising OSError skips the entry
TopLevelStep_KeepsFiles(found_folders, root_dir, name, search_term_lower, is_dir_raises) ==
    IF ~Contains(Lower(name), search_term_lower) THEN found_folders
    ELSE IF name \in is_dir_raises THEN found_folders
    ELSE Append(found_folders, <<name, JoinDir(root_dir, name)>>)

TopLevelStep(found_folders, root_dir, name, search_term_lower, is_dir_raises) ==
    IF ~Contains(Lower(name), search_term_lower) THEN found_folders
    ELSE IF name \in is_dir_raises THEN found_folders
    ELSE IF IsDir(JoinDir(root_dir, name))
         THEN Append(found_folders, <<name, JoinDir(root_dir, name)>>)
         ELSE found_folders

RECURSIVE TopLevelLoop(_, _, _, _, _)
TopLevelLoop(found_folders, root_dir, names, search_term_lower, is_dir_raises) ==
    IF names = <<>> THEN found_folders
    ELSE TopLevelLoop(TopLevelStep(found_folders, root_dir, Head(names), search_term_lower,
                                   is_dir_raises),
                      root_dir, Tail(names), search_term_lower, is_dir_raises)

\* scan_raises: os.scandir(root_dir), or the iteration over it, raises
\* (PermissionError, FileNotFoundError, OSError); is_dir_raises: the entries
\* whose is_dir() raises OSError
search_top_level_folders(root_dir, search_term, scan_raises, is_dir_raises) ==
    IF ~IsDir(root_dir) THEN <<>>
    ELSE IF scan_raises THEN <<>>
    ELSE TopLevelLoop(<<>>, root_dir, SetToSeq(ScandirNames(root_dir)), Lower(search_term),
                      is_dir_raises)

\* lines 61-65 for one file of the walk
SearchFileStep_EveryExtension(found_files, root, file, search_terms_lower) ==
    LET file_lower == Lower(file)
    IN  IF \E term \in search_terms_lower : Contains(file_lower, term)
        THEN Append(found_files, JoinFile(root, file))
        ELSE found_files

SearchFileStep(found_files, root, file, search_terms_lower) ==
    LET file_lower == Lower(file)
    IN  IF EndsWith(file_lower, DotStl)
        THEN IF \E term \in search_terms_lower : Contains(file_lower, term)
             THEN Append(found_files, JoinFile(root, file))
             ELSE found_files
        ELSE found_files

RECURSIVE SearchFilesLoop(_, _, _, _)
SearchFilesLoop(found_files, root, files, search_terms_lower) ==
    IF files = <<>> THEN found_files
    ELSE SearchFilesLoop(SearchFileStep(found_files, root, Head(files), search_terms_lower),
                         root, Tail(files), search_terms_lower)

RECURSIVE SearchWalkLoop(_, _, _)
SearchWalkLoop(found_files, walk, search_terms_lower) ==
    IF walk = <<>> THEN found_files
    ELSE SearchWalkLoop(
             SearchFilesLoop(found_files, Head(walk).root, Head(walk).files, search_terms_lower),
             Tail(walk), search_terms_lower)

\* unlistable: the directories whose os.scandir raises during the walk.
\* os.walk is called without onerror, so it drops such a directory and goes
\* on: nothing is raised into the function and neither except clause runs.
\* The result is the list returned and the st.error messages shown.
search_files_recursively(root_dir, search_terms, unlistable) ==
    IF search_terms = <<>> \/ ~IsDir(root_dir)
    THEN [found_files |-> <<>>, errors |-> <<>>]
    ELSE LET search_terms_lower == {Lower(term) : term \in Range(search_terms)}
         IN  [found_files |-> SearchWalkLoop(<<>>, WalkSkipping(root_dir, unlistable),
                                             search_terms_lower),
              errors |-> <<>>]

(***************************************************************************)
(* Search calls against a small tree: the root, two subfolders, one        *)
(* subfolder below the second, and files in three of them.                 *)
(***************************************************************************)
MaxSearchFiles == 2

MaxSearchFailures == 1

SearchRoot == [root |-> PREDEFINED_PATHS["Model Material"], rel |-> <<>>]

NameAb == <<"A","b">>

NameCb == <<"c","b">>

SearchDirTrees ==
    { {},
      {SearchRoot},
      {SearchRoot, JoinDir(SearchRoot, NameAb)},
      {SearchRoot, JoinDir(SearchRoot, NameAb), JoinDir(SearchRoot, NameCb)},
      {SearchRoot, JoinDir(SearchRoot, NameAb), JoinDir(SearchRoot, NameCb),
       JoinDir(JoinDir(SearchRoot, NameCb), NameAb)} }

SearchFileNames ==
    { <<"x","A","b",".","S","T","L">>, <<"c","b",".","s","t","l">>, <<"a","b",".","t","x","t">> }

SearchTerms == { <<>>, <<"a","B">>, <<"b">>, <<"z">> }

SearchTermLists == { <<>>, << <<"a","B">> >>, << <<"b">>, <<"a","b">> >>, << <<"z">>, <<"C","B">> >>,
                     << <<"z">> >> }

SearchInit ==
    /\ \E dirs \in SearchDirTrees :
         \E files \in {T \in SUBSET {JoinFile(d, n) : d \in dirs, n \in SearchFileNames} :
                          Cardinality(T) <= MaxSearchFiles} :
            /\ fs_dirs = dirs
            /\ fs_files = [f \in files |-> f]
    /\ session_state = default_state
    /\ analysis_log = [stat_fail |-> {}, walk_fail |-> {}, entries |-> <<>>]
    /\ pc = "idle"
    /\ call = NoCall
    /\ loc = NoLocals
    /\ messages = <<>>
    /\ opened = <<>>
    /\ env_added = {}
    /\ helper_call = NoHelperCall
    /\ copy_history = <<>>

SearchTopLevelFolders ==
    \E root_dir \in {SearchRoot, JoinDir(SearchRoot, NameCb)}, search_term \in SearchTerms,
       scan_raises \in BOOLEAN :
      \E is_dir_raises \in {T \in SUBSET ScandirNames(root_dir) :
                               Cardinality(T) <= MaxSearchFailures} :
        /\ helper_call' = [function |-> "search_top_level_folders", root_dir |-> root_dir,
                      search_term |-> search_term, scan_raises |-> scan_raises,
                      is_dir_raises |-> is_dir_raises,
                      result |-> search_top_level_folders(root_dir, search_term, scan_raises,
                                                          is_dir_raises)]
        /\ UNCHANGED <<fs_dirs, fs_files, session_state, analysis_log, pc, call, loc,
                       messages, opened, env_added, copy_history>>

SearchFilesRecursively ==
    \E root_dir \in {SearchRoot, JoinDir(SearchRoot, NameCb)}, search_terms \in SearchTermLists :
      \E unlistable \in {T \in SUBSET {entry.root : entry \in Range(Walk(root_dir))} :
                            Cardinality(T) <= MaxSearchFailures} :
        LET outcome == search_files_recursively(root_dir, search_terms, unlistable)
        IN  /\ helper_call' = [function |-> "search_files_recursively", root_dir |-> root_dir,
                          search_terms |-> search_terms, unlistable |-> unlistable,
                          result |-> outcome.found_files, errors |-> outcome.errors]
            /\ UNCHANGED <<fs_dirs, fs_files, session_state, analysis_log, pc, call, loc,
                           messages, opened, env_added, copy_history>>

SearchNext == SearchTopLevelFolders \/ SearchFilesRecursively

SearchSpec == SearchInit /\ [][SearchNext]_vars

(***************************************************************************)
(* The same copy started again: after a completed copy the widgets keep    *)
(* their values, so pressing the copy button again (lines 694-703 and      *)
(* 816-820) calls copy_items with the same items and the same plan.        *)
(***************************************************************************)
MaxRepeats == 1

CopyAgain ==
    /\ pc = "done"
    /\ Len(copy_history) < MaxRepeats
    /\ copy_history' =
          Append(copy_history,
                 [written |-> [p \in {q \in DOMAIN fs_files : fs_files[q] # q} |-> fs_files[p]],
                  error_count |-> loc.error_count])
    /\ \E open_destination \in BOOLEAN :
          copy_items(call.items_to_process, call.search_mode, open_destination)

RepeatNext ==
    \/ AnalyzeFolders
    \/ AnalyzeFiles
    \/ CallCopyItems
    \/ PreScan
    \/ BeginCopyPass
    \/ CopyFolderFile
    \/ CopyListedFile
    \/ Complete
    \/ CopyAgain

RepeatSpec == Init /\ [][RepeatNext]_vars

(***************************************************************************)
(* is_valid_foldername called on the names a user can type: every name of  *)
(* up to MaxNameLen characters over a small alphabet, and some longer ones.*)
(***************************************************************************)
MaxNameLen == 4

NameAlphabet == {"c", "O", "n", "1", ".", " ", "/", "\t"}

RECURSIVE NamesUpTo(_)
NamesUpTo(n) ==
    IF n = 0 THEN {<<>>}
    ELSE LET shorter == NamesUpTo(n - 1)
         IN  shorter \cup {Append(s, c) : s \in shorter, c \in NameAlphabet}

LongerNames ==
    { <<"P","r","o","j","e","c","t","_","2","0","2","5">>,
      <<"c","o","n",".","t","x","t">>, <<"c","o","n",".","t","a","r",".","g","z">>,
      <<"n","a","m","e",".">>, <<"n","a","m","e"," ">>, <<"n","a","m","e">>,
      <<"C","O","M","1">>, <<"c","o","m","9",".","x">>, <<"C","O","M","0">>,
      <<"L","p","t","5">>, <<"L","P","T","1","0">>, <<"a","u","x">>, <<"P","R","N">>,
      <<"N","u","l",".","a">>, <<"x",".","c","o","n">>, <<"a","<","b">>, <<"a",">","b">>,
      <<"a",":","b">>, <<"a","\"","b">>, <<"a","\\","b">>, <<"a","|","b">>, <<"a","?","b">>,
      <<"a","*","b">>, <<"a","\n","b">>, <<"a","-","b">> }

FolderNameInputs == NamesUpTo(MaxNameLen) \cup LongerNames

\* the function is pure: one call per behaviour shows all it does
CallIsValidFoldername ==
    /\ helper_call = NoHelperCall
    /\ \E foldername \in FolderNameInputs :
          helper_call' = [function |-> "is_valid_foldername", foldername |-> foldername,
                          result |-> is_valid_foldername(foldername)]
    /\ UNCHANGED <<fs_dirs, fs_files, session_state, analysis_log, pc, call, loc, messages,
                   opened, env_added, copy_history>>

\* the tool just started: the three shares exist and nothing is selected
NameInit ==
    /\ fs_dirs = {INHOUSE_PRINTING_PATH, MODEL_BASE_PATH, TISSUE_BASE_PATH}
    /\ fs_files = <<>>
    /\ session_state = default_state
    /\ analysis_log = [stat_fail |-> {}, walk_fail |-> {}, entries |-> <<>>]
    /\ pc = "idle"
    /\ call = NoCall
    /\ loc = NoLocals
    /\ messages = <<>>
    /\ opened = <<>>
    /\ env_added = {}
    /\ helper_call = NoHelperCall
    /\ copy_history = <<>>

NameNext == CallIsValidFoldername

NameSpec == NameInit /\ [][NameNext]_vars

(***************************************************************************)
(* The script (lines 384-685): one run from the top to its end, which is   *)
(* either the bottom of the script or an st.rerun().  Widget inputs: a     *)
(* check box lives in st.session_state under its key, so a click changes   *)
(* that key before the run; the text area and the multiselect return what  *)
(* the user made of them, or their `value`/`default` when untouched.       *)
(* Section 4 (lines 687-835) changes nothing unless its own widgets are    *)
(* used; its copy button is the copy_items invocation modelled above.      *)
(***************************************************************************)
\* PREDEFINED_PATHS.items(), in the order of the dict literal
PathLabels == <<"Model Material", "Exocad", "InHouse Printing">>

RootDir(path) == [root |-> path, rel |-> <<>>]

\* os.path.basename of a predefined root path
RootBasename(path) ==
    CASE path = PREDEFINED_PATHS["Model Material"] -> "Model Material"
      [] path = PREDEFINED_PATHS["Exocad"] -> "CAD-Data -- Exocad"
      [] path = PREDEFINED_PATHS["InHouse Printing"] -> "! INHOUSE PRINTING !"

\* lines 414-422: the check box values of this run
LoadCheckboxes(ss) ==
    [path_name \in Range(PathLabels) |->
        LET is_valid == IsDir(RootDir(PREDEFINED_PATHS[path_name]))
            default_checked == (path_name = "Model Material" /\ is_valid)
        IN  IF ss.app_just_reset \/ ss.checkbox[path_name] = "missing"
            THEN (IF default_checked THEN "checked" ELSE "unchecked")
            ELSE ss.checkbox[path_name]]

\* line 423: `if is_selected and is_valid: selected_search_paths_on_load.append(path)`
SelectedSearchPathsOnLoad(checkbox) ==
    LET Chosen(path_name) == /\ checkbox[path_name] = "checked"
                             /\ IsDir(RootDir(PREDEFINED_PATHS[path_name]))
        chosen == SelectSeq(PathLabels, Chosen)
    IN  [i \in 1..Len(chosen) |-> PREDEFINED_PATHS[chosen[i]]]

\* lines 441-446 and 463-468
ClearDownstream(ss) ==
    [ss EXCEPT !.found_folders_cache = PyDict(<<>>), !.found_file_paths = PyList(<<>>),
               !.selected_display_names = <<>>, !.selected_folder_paths = PyDict(<<>>),
               !.selected_items_to_copy = PyNone,
               !.last_selected_paths_for_items = PyDict(<<>>),
               !.empty_selected_folders_list = <<>>, !.total_copy_selected_size = 0,
               !.display_model_selected_size = 0, !.non_stl_in_selection = FALSE,
               !.tissue_files_found_in_selection = FALSE]

\* lines 427-433
InferredSearchMode_FileWheneverInHouse(selected_search_paths_on_load) ==
    IF \E i \in 1..Len(selected_search_paths_on_load) :
          selected_search_paths_on_load[i] = PREDEFINED_PATHS["InHouse Printing"]
    THEN "file"
    ELSE "folder"

InferredSearchMode(selected_search_paths_on_load) ==
    IF \E i \in 1..Len(selected_search_paths_on_load) :
          selected_search_paths_on_load[i] = PREDEFINED_PATHS["InHouse Printing"]
    THEN (IF Len(selected_search_paths_on_load) = 1 THEN "file" ELSE "folder")
    ELSE "folder"

\* lines 401-450
SearchLocationsSection(ss) ==
    LET checkbox == LoadCheckboxes(ss)
        loaded == [ss EXCEPT !.checkbox = checkbox, !.app_just_reset = FALSE]
        selected_search_paths_on_load == SelectedSearchPathsOnLoad(checkbox)
        current_search_mode == InferredSearchMode(selected_search_paths_on_load)
        mixed_selection ==
            /\ \E i \in 1..Len(selected_search_paths_on_load) :
                  selected_search_paths_on_load[i] = PREDEFINED_PATHS["InHouse Printing"]
            /\ Len(selected_search_paths_on_load) # 1
    IN  IF selected_search_paths_on_load # ss.selected_search_paths
        THEN [ss |-> [ClearDownstream(loaded) EXCEPT
                         !.selected_search_paths = selected_search_paths_on_load,
                         !.search_mode = current_search_mode],
              rerun |-> TRUE, mixed |-> mixed_selection]
        ELSE [ss |-> [loaded EXCEPT !.search_mode = current_search_mode],
              rerun |-> FALSE, mixed |-> mixed_selection]

\* lines 461-469
SearchTermsSection(ss, search_terms_input) ==
    IF search_terms_input # ss.search_terms
    THEN [ss |-> [ClearDownstream(ss) EXCEPT !.search_terms = search_terms_input],
          rerun |-> TRUE]
    ELSE [ss |-> ss, rerun |-> FALSE]

\* line 470; the text is kept as its sequence of lines
SplitTerms(text) ==
    LET stripped == [i \in 1..Len(text) |-> Strip(text[i])]
        NotEmpty(term) == term # <<>>
    IN  SelectSeq(stripped, NotEmpty)

StoreAnalysisIn(ss, items, result, marker) ==
    [ss EXCEPT
        !.selected_items_to_copy = items,
        !.total_copy_selected_size = result.total_copy_size_bytes,
        !.display_model_selected_size = result.display_model_size_bytes,
        !.non_stl_in_selection = result.non_stl_found,
        !.tissue_files_found_in_selection = result.tissue_files_present,
        !.empty_selected_folders_list = result.empty_folders_encountered,
        !.last_selected_paths_for_items = marker]

AnalysisLogOf(result) == [stat_fail |-> {}, walk_fail |-> {}, entries |-> result.log]

\* lines 486-518
FileSearchSection(ss, search_terms) ==
    IF search_terms # ss.last_search_terms \/ ss.last_selected_paths_for_items.dtype # "list"
    THEN LET found_files ==
                 search_files_recursively(INHOUSE_PRINTING_PATH, search_terms, {}).found_files
         IN  [ss |-> [ss EXCEPT !.found_file_paths = PyList(found_files),
                                !.last_search_terms = search_terms,
                                !.last_selected_paths_for_items = PyList(<<>>)],
              rerun |-> TRUE, log |-> analysis_log,
              shown |-> <<Msg("spinner", "Searching files for: ...")>>]
    ELSE LET found_file_paths == ss.found_file_paths
         IN  IF Truthy(found_file_paths)
             THEN IF ~PyEq(found_file_paths, ss.last_selected_paths_for_items)
                  THEN LET result == get_file_details(found_file_paths, {})
                       IN  [ss |-> [StoreAnalysisIn(ss, found_file_paths, result,
                                                    found_file_paths)
                                       EXCEPT !.empty_selected_folders_list = <<>>],
                            rerun |-> TRUE, log |-> AnalysisLogOf(result),
                            shown |-> <<Msg("spinner", "Analyzing found files...")>>]
                  ELSE [ss |-> ss, rerun |-> FALSE, log |-> analysis_log, shown |-> <<>>]
             ELSE IF ss.last_search_terms = search_terms
             THEN [ss |-> [ss EXCEPT !.selected_items_to_copy = PyNone,
                                     !.total_copy_selected_size = 0,
                                     !.display_model_selected_size = 0,
                                     !.non_stl_in_selection = FALSE,
                                     !.tissue_files_found_in_selection = FALSE,
                                     !.last_selected_paths_for_items = PyList(<<>>)],
                   rerun |-> FALSE, log |-> analysis_log, shown |-> <<>>]
             ELSE [ss |-> ss, rerun |-> FALSE, log |-> analysis_log, shown |-> <<>>]

\* line 530
OriginLabel(root_dir) ==
    IF \E name \in Range(PathLabels) : PREDEFINED_PATHS[name] = root_dir
    THEN CHOOSE name \in Range(PathLabels) : PREDEFINED_PATHS[name] = root_dir
    ELSE "Unknown"

RECURSIVE FoundForTerms(_, _)
\* lines 531-534 for one root, before the `not in` test
FoundForTerms(root_dir, search_terms) ==
    IF search_terms = <<>> THEN <<>>
    ELSE LET found_in_root ==
                 search_top_level_folders(RootDir(root_dir), Head(search_terms), FALSE, {})
         IN  [i \in 1..Len(found_in_root) |->
                 [key |-> found_in_root[i][2],
                  value |-> <<found_in_root[i][1], OriginLabel(root_dir)>>]]
             \o FoundForTerms(root_dir, Tail(search_terms))

RECURSIVE FoundInRoots(_, _)
FoundInRoots(root_dirs, search_terms) ==
    IF root_dirs = <<>> THEN <<>>
    ELSE FoundForTerms(Head(root_dirs), search_terms)
         \o FoundInRoots(Tail(root_dirs), search_terms)

RECURSIVE KeepFirst(_)
\* a dict filled in order keeps the position of the first entry of each key
\* (line 534 also keeps its value)
KeepFirst(entries) ==
    IF entries = <<>> THEN <<>>
    ELSE LET rest == KeepFirst(SubSeq(entries, 1, Len(entries) - 1))
             last == entries[Len(entries)]
         IN  IF \E i \in 1..Len(rest) : rest[i].key = last.key THEN rest
             ELSE Append(rest, last)

\* f"{name}  (in ...{os.path.basename(os.path.dirname(path))})" for a folder
\* directly below a root
DisplayName(name, path) == <<name, "  (in ...", RootBasename(path.root), ")">>

\* lines 539 and 551: display name -> path
DisplayOptions(found_folders_map) ==
    KeepFirst([i \in 1..Len(found_folders_map.items) |->
                  [key |-> DisplayName(found_folders_map.items[i].value[1],
                                       found_folders_map.items[i].key),
                   value |-> found_folders_map.items[i].key]])

DictGet(entries, key) == (CHOOSE e \in Range(entries) : e.key = key).value

\* lines 521-547
FolderSearch(ss, search_terms) ==
    LET all_found_folders_dict ==
            PyDict(KeepFirst(FoundInRoots(ss.selected_search_paths, search_terms)))
        display_options_update == DisplayOptions(all_found_folders_dict)
    IN  [ss EXCEPT
            !.found_folders_cache = all_found_folders_dict,
            !.last_search_terms = search_terms,
            !.last_selected_paths = ss.selected_search_paths,
            !.selected_display_names =
                [i \in 1..Len(display_options_update) |-> display_options_update[i].key],
            !.selected_folder_paths = PyDict(<<>>),
            !.selected_items_to_copy = PyNone,
            !.last_selected_paths_for_items = PyDict(<<>>),
            !.empty_selected_folders_list = <<>>,
            !.total_copy_selected_size = 0, !.display_model_selected_size = 0,
            !.non_stl_in_selection = FALSE, !.tissue_files_found_in_selection = FALSE]

\* lines 567 and 575: the selected display names as path -> origin label
NewSelectedFolderPaths(selected_display_names, display_options, found_folders_map) ==
    PyDict([i \in 1..Len(selected_display_names) |->
               LET path == DictGet(display_options, selected_display_names[i])
               IN  [key |-> path, value |-> DictGet(found_folders_map.items, path)[2]]])

\* lines 549-578: the multiselect and its change handling
FolderSelectionSection(ss, multiselect) ==
    LET found_folders_map == ss.found_folders_cache
    IN  IF ~Truthy(found_folders_map) THEN [ss |-> ss, rerun |-> FALSE]
        ELSE LET display_options == DisplayOptions(found_folders_map)
                 InOptions(name) == \E i \in 1..Len(display_options) :
                                        display_options[i].key = name
                 current_selection_display_filtered ==
                     SelectSeq(ss.selected_display_names, InOptions)
                 selected_display_names ==
                     IF multiselect.changed THEN multiselect.value
                     ELSE current_selection_display_filtered
                 new_selected_folder_paths ==
                     NewSelectedFolderPaths(selected_display_names, display_options,
                                            found_folders_map)
             IN  IF selected_display_names # current_selection_display_filtered
                 THEN [ss |-> [ss EXCEPT
                                  !.selected_display_names = selected_display_names,
                                  !.selected_folder_paths = new_selected_folder_paths,
                                  !.last_selected_paths_for_items = PyDict(<<>>)],
                       rerun |-> TRUE]
                 ELSE IF ~PyEq(new_selected_folder_paths, ss.selected_folder_paths)
                 THEN [ss |-> [ss EXCEPT !.selected_folder_paths = new_selected_folder_paths],
                       rerun |-> FALSE]
                 ELSE [ss |-> ss, rerun |-> FALSE]

\* the analysis trigger without the marker assignment of line 595
FolderAnalysisSection_KeepsNoMarker(ss) ==
    IF /\ ~PyEq(ss.selected_folder_paths, ss.last_selected_paths_for_items)
       /\ Truthy(ss.selected_folder_paths)
    THEN [ss |-> StoreAnalysisIn(ss, ss.selected_folder_paths,
                                 get_recursive_folder_details(ss.selected_folder_paths, {}, {}),
                                 ss.last_selected_paths_for_items),
          rerun |-> TRUE,
          log |-> AnalysisLogOf(get_recursive_folder_details(ss.selected_folder_paths, {}, {})),
          shown |-> <<Msg("spinner", "Analyzing contents...")>>]
    ELSE [ss |-> ss, rerun |-> FALSE, log |-> analysis_log, shown |-> <<>>]

\* lines 581-603: the folder analysis trigger
FolderAnalysisSection(ss) ==
    LET current_selected_paths_dict == ss.selected_folder_paths
        last_selected_paths_for_items_dict == ss.last_selected_paths_for_items
    IN  IF ~PyEq(current_selected_paths_dict, last_selected_paths_for_items_dict)
        THEN IF Truthy(current_selected_paths_dict)
             THEN LET result == get_recursive_folder_details(current_selected_paths_dict,
                                                             {}, {})
                  IN  [ss |-> StoreAnalysisIn(ss, current_selected_paths_dict, result,
                                              current_selected_paths_dict),
                       rerun |-> TRUE, log |-> AnalysisLogOf(result),
                       shown |-> <<Msg("spinner", "Analyzing contents...")>>]
             ELSE [ss |-> [ss EXCEPT !.selected_items_to_copy = PyNone,
                                     !.total_copy_selected_size = 0,
                                     !.display_model_selected_size = 0,
                                     !.non_stl_in_selection = FALSE,
                                     !.empty_selected_folders_list = <<>>,
                                     !.last_selected_paths_for_items = PyDict(<<>>),
                                     !.tissue_files_found_in_selection = FALSE],
                   rerun |-> FALSE, log |-> analysis_log, shown |-> <<>>]
        ELSE [ss |-> ss, rerun |-> FALSE, log |-> analysis_log, shown |-> <<>>]

\* lines 573 and 581: the change handler's rerun, or on to the analysis trigger
AfterSelection(selection) ==
    IF selection.rerun THEN [ss |-> selection.ss, rerun |-> TRUE, log |-> analysis_log, shown |-> <<>>]
    ELSE FolderAnalysisSection(selection.ss)

\* lines 520-603: folder search mode
FolderSearchSection(ss, search_terms, multiselect) ==
    LET needs_search == \/ Range(search_terms) # Range(ss.last_search_terms)
                        \/ Range(ss.selected_search_paths) # Range(ss.last_selected_paths)
    IN  IF needs_search
        THEN [ss |-> FolderSearch(ss, search_terms), rerun |-> TRUE, log |-> analysis_log,
              shown |-> <<Msg("spinner", "Searching folders...")>>]
        ELSE AfterSelection(FolderSelectionSection(ss, multiselect))

\* section 3 without the mixed selection branch of lines 476-479
ResultsSection_IgnoresMixedSelection(ss, mixed_selection, multiselect) ==
    IF ss.selected_search_paths = <<>> \/ SplitTerms(ss.search_terms) = <<>>
    THEN [ss |-> ss, rerun |-> FALSE, log |-> analysis_log, shown |-> <<>>]
    ELSE IF ss.search_mode = "file" THEN FileSearchSection(ss, SplitTerms(ss.search_terms))
    ELSE FolderSearchSection(ss, SplitTerms(ss.search_terms), multiselect)

\* lines 472-603
ResultsSection(ss, mixed_selection, multiselect) ==
    LET search_terms == SplitTerms(ss.search_terms)
    IN  IF mixed_selection
        THEN [ss |-> [ss EXCEPT !.selected_items_to_copy = PyNone,
                                !.found_folders_cache = PyDict(<<>>),
                                !.found_file_paths = PyList(<<>>)],
              rerun |-> FALSE, log |-> analysis_log,
              shown |-> <<Msg("error", "Mixed Mode Error")>>]
        ELSE IF ss.selected_search_paths = <<>>
        THEN [ss |-> ss, rerun |-> FALSE, log |-> analysis_log, shown |-> <<>>]
        ELSE IF search_terms = <<>>
        THEN [ss |-> ss, rerun |-> FALSE, log |-> analysis_log, shown |-> <<>>]
        ELSE IF ss.search_mode = "file" THEN FileSearchSection(ss, search_terms)
        ELSE FolderSearchSection(ss, search_terms, multiselect)

\* lines 376-382: the keys of default_state except app_just_reset go back to
\* their defaults; the widget keys and last_selected_paths are no such keys
reset_app_state(ss) ==
    [default_state EXCEPT !.app_just_reset = TRUE,
                          !.checkbox = ss.checkbox,
                          !.last_selected_paths = ss.last_selected_paths]

\* lines 677-681: the folders the sidebar names as empty or inaccessible
SidebarEmptyNotice(ss) ==
    IF ss.search_mode = "folder" /\ ss.empty_selected_folders_list # <<>>
    THEN ss.empty_selected_folders_list
    ELSE <<>>

\* lines 629-631 and 654-662: does the sidebar show the analysed sizes?
SidebarShowsSizes(ss) ==
    IF ss.search_mode = "file"
    THEN /\ Truthy(ss.found_file_paths)
         /\ PyEq(ss.found_file_paths, ss.last_selected_paths_for_items)
    ELSE /\ Truthy(ss.selected_folder_paths)
         /\ PyEq(ss.selected_folder_paths, ss.last_selected_paths_for_items)

\* lines 691-706: can_show_copy_section
CopySectionShownIn(ss) ==
    IF ss.search_mode = "file"
    THEN /\ Truthy(ss.found_file_paths)
         /\ PyEq(ss.found_file_paths, ss.last_selected_paths_for_items)
    ELSE /\ Truthy(ss.selected_folder_paths)
         /\ PyEq(ss.selected_folder_paths, ss.last_selected_paths_for_items)
         /\ Truthy(ss.selected_items_to_copy)

\* is the widget of this copy plan key on the page?  (lines 718, 723-724,
\* 749, 754-755, 768-778)
PlanWidgetShown(ss, key) ==
    /\ CopySectionShownIn(ss)
    /\ CASE key = "model_copy_mode" -> TRUE
         [] key = "model_new_folder_name" -> ss.model_copy_mode = "Into a New Subfolder"
         [] key = "tissue_copy_mode" ->
                ss.search_mode = "folder" /\ ss.tissue_files_found_in_selection
         [] key = "tissue_new_folder_name" ->
                /\ ss.search_mode = "folder" /\ ss.tissue_files_found_in_selection
                /\ ss.tissue_copy_mode = "Into a New Subfolder"

\* lines 709-787: a changed radio or name input is stored and the run ends
\* with st.rerun() (lines 720, 728, 751, 759, 775, 782)
CopyPlanSection(results, plan) ==
    IF plan.changed /\ PlanWidgetShown(results.ss, plan.key)
    THEN [results EXCEPT !.ss = [@ EXCEPT ![plan.key] = plan.value], !.rerun = TRUE]
    ELSE results

\* lines 615-835: the sidebar, which ends the run when Reset Search was
\* pressed, and then section 4
AfterResults(results, inputs) ==
    IF results.rerun THEN results
    ELSE IF inputs.reset
    THEN [ss |-> reset_app_state(results.ss), rerun |-> TRUE, log |-> results.log,
          shown |-> results.shown]
    ELSE CopyPlanSection(results, inputs.plan)

\* the script from line 472 on, given what section 2 left
AfterTerms(terms, mixed_selection, inputs) ==
    IF terms.rerun THEN [ss |-> terms.ss, rerun |-> TRUE, log |-> analysis_log, shown |-> <<>>]
    ELSE AfterResults(ResultsSection(terms.ss, mixed_selection, inputs.multiselect), inputs)

\* the script from line 452 on, given what section 1 left
AfterLocations(locations, inputs) ==
    IF locations.rerun THEN [ss |-> locations.ss, rerun |-> TRUE, log |-> analysis_log, shown |-> <<>>]
    ELSE AfterTerms(SearchTermsSection(locations.ss, inputs.search_terms_input),
                    locations.mixed, inputs)

\* one run of the script: inputs.search_terms_input is what the text area
\* returns, inputs.multiselect what the multiselect returns, inputs.reset
\* whether the Reset button was pressed, and inputs.plan what a widget of
\* section 4 returns
RunScript(ss, inputs) == AfterLocations(SearchLocationsSection(ss), inputs)

Untouched == [changed |-> FALSE, value |-> <<>>]

\* the run's effect on the state: pc is "rerun" when st.rerun() ended the run
\* and the next run is due, "idle" when the script waits for the user;
\* messages holds the spinners, the mixed mode error and the st.rerun()
\* calls of the runs since the user's last input
EndOfRun(outcome, shown_before) ==
    /\ session_state' = outcome.ss
    /\ analysis_log' = outcome.log
    /\ pc' = IF outcome.rerun THEN "rerun" ELSE "idle"
    /\ messages' = shown_before \o outcome.shown
                       \o (IF outcome.rerun THEN <<Msg("rerun", "st.rerun()")>> ELSE <<>>)
    /\ UNCHANGED <<fs_dirs, fs_files, call, loc, opened, env_added, helper_call,
                   copy_history>>

ScriptRun(ss, inputs, shown_before) == EndOfRun(RunScript(ss, inputs), shown_before)

\* the run a user's input starts
ScriptRunOnInput(ss, inputs) == ScriptRun(ss, inputs, <<>>)

\* the longest list of messages a chain of reruns is followed to
MaxChainMessages == 8

\* the first run of a session, and the run an st.rerun() starts
Rerun ==
    /\ pc = "rerun"
    /\ Len(messages) < MaxChainMessages
    /\ ScriptRun(session_state,
                 [search_terms_input |-> session_state.search_terms,
                  multiselect |-> Untouched, reset |-> FALSE, plan |-> Untouched],
                 messages)

\* the user clicks the check box of a search location (line 422; the box of
\* an invalid path is disabled)
UserTogglesLocation ==
    /\ pc = "idle"
    /\ \E path_name \in Range(PathLabels) :
          /\ IsDir(RootDir(PREDEFINED_PATHS[path_name]))
          /\ ScriptRunOnInput([session_state EXCEPT
                                  !.checkbox[path_name] =
                                      IF @ = "checked" THEN "unchecked" ELSE "checked"],
                              [search_terms_input |-> session_state.search_terms,
                               multiselect |-> Untouched, reset |-> FALSE,
                               plan |-> Untouched])

\* the texts the user types into the search box, as lines; two of them give
\* the same terms after line 470
TermTexts == { <<>>, << <<"2","5","-","1">> >>, << <<" ","2","5"," ">>, <<" ">> >>,
               << <<"2","5">> >>, << <<"M","o","d">> >> }

\* the user edits the search terms (lines 455-461)
UserEntersTerms ==
    /\ pc = "idle"
    /\ \E text \in TermTexts \ {session_state.search_terms} :
          ScriptRunOnInput(session_state,
                           [search_terms_input |-> text, multiselect |-> Untouched,
                            reset |-> FALSE, plan |-> Untouched])

\* the multiselect is on the page: the last run came to line 560
MultiselectShown ==
    /\ session_state.search_mode = "folder"
    /\ session_state.selected_search_paths # <<>>
    /\ SplitTerms(session_state.search_terms) # <<>>
    /\ Truthy(session_state.found_folders_cache)

\* the user changes the folder selection (line 560)
UserSelectsFolders ==
    /\ pc = "idle"
    /\ MultiselectShown
    /\ LET display_options == DisplayOptions(session_state.found_folders_cache)
           names == {display_options[i].key : i \in 1..Len(display_options)}
       IN  \E chosen \in SUBSET names :
              /\ SetToSeq(chosen) # session_state.selected_display_names
              /\ ScriptRunOnInput(session_state,
                                  [search_terms_input |-> session_state.search_terms,
                                   multiselect |-> [changed |-> TRUE,
                                                    value |-> SetToSeq(chosen)],
                                   reset |-> FALSE, plan |-> Untouched])

\* the user presses Reset Search (line 685)
UserPressesReset ==
    /\ pc = "idle"
    /\ ScriptRunOnInput(session_state,
                        [search_terms_input |-> session_state.search_terms,
                         multiselect |-> Untouched, reset |-> TRUE, plan |-> Untouched])

\* the subfolder names the user types in section 4
PlanNames == {NameP}

\* what the user can make of the widget of a copy plan key
PlanValues(key) ==
    IF key \in {"model_copy_mode", "tissue_copy_mode"} THEN CopyModes ELSE PlanNames

\* the user changes a copy mode radio or a subfolder name of section 4
UserChangesCopyPlan ==
    /\ pc = "idle"
    /\ \E key \in {"model_copy_mode", "model_new_folder_name",
                    "tissue_copy_mode", "tissue_new_folder_name"} :
          /\ PlanWidgetShown(session_state, key)
          /\ \E value \in PlanValues(key) \ {session_state[key]} :
                ScriptRunOnInput(session_state,
                                 [search_terms_input |-> session_state.search_terms,
                                  multiselect |-> Untouched, reset |-> FALSE,
                                  plan |-> [changed |-> TRUE, key |-> key,
                                            value |-> value]])

(***************************************************************************)
(* Sessions of the script over small shares: which of the three roots      *)
(* exist, two case folders below Model Material, one below Exocad, one job *)
(* folder below InHouse Printing, and up to MaxScriptFiles files in them.  *)
(***************************************************************************)
MaxScriptFiles == 1

FolderB == [root |-> PREDEFINED_PATHS["Model Material"], rel |-> << <<"2","5","-","2">> >>]

ScriptRoots == {RootDir(PREDEFINED_PATHS[path_name]) : path_name \in Range(PathLabels)}

\* the shares that are up: all three, or all but Model Material
ScriptRootSets ==
    {ScriptRoots, ScriptRoots \ {[root |-> PREDEFINED_PATHS["Model Material"], rel |-> <<>>]}}

ScriptFolders == {FolderA, FolderB, FolderE, InHouseJobs}

ScriptFilePaths ==
    {JoinFile(FolderA, NameTissueModel), JoinFile(FolderB, NameNotes),
     JoinFile(FolderE, NameModel), JoinFile(InHouseJobs, NameModel)}

ScriptInit ==
    /\ \E roots \in ScriptRootSets :
         \E files \in {T \in SUBSET {f \in ScriptFilePaths : RootDir(f.dir.root) \in roots} :
                          Cardinality(T) <= MaxScriptFiles} :
            /\ fs_dirs = roots \cup {d \in ScriptFolders : RootDir(d.root) \in roots}
            /\ fs_files = [f \in files |-> f]
    /\ session_state = default_state
    /\ analysis_log = [stat_fail |-> {}, walk_fail |-> {}, entries |-> <<>>]
    /\ pc = "rerun"
    /\ call = NoCall
    /\ loc = NoLocals
    /\ messages = <<>>
    /\ opened = <<>>
    /\ env_added = {}
    /\ helper_call = NoHelperCall
    /\ copy_history = <<>>

ScriptNext ==
    \/ Rerun
    \/ UserTogglesLocation
    \/ UserEntersTerms
    \/ UserSelectsFolders
    \/ UserPressesReset
    \/ UserChangesCopyPlan

ScriptSpec == ScriptInit /\ [][ScriptNext]_vars

\* the sessions over the shares that are all up, with one tissue file in a
\* case folder of Model Material
ScriptLiveInit ==
    /\ ScriptInit
    /\ fs_dirs = ScriptRoots \cup ScriptFolders
    /\ DOMAIN fs_files = {JoinFile(FolderA, NameTissueModel)}

\* the guard of Rerun
RerunDue == pc = "rerun" /\ Len(messages) < MaxChainMessages

\* Streamlit starts the run an st.rerun() asks for: weak fairness of Rerun,
\* WF_vars(Rerun), written with the guard of Rerun for ENABLED <<Rerun>>_vars
\* and, no other action being enabled while a run is due, with a step from
\* a state where a run is due, which lengthens messages, for <<Rerun>>_vars
RerunFairness == []<>(~RerunDue) \/ []<><<RerunDue>>_vars

ScriptLiveSpec == ScriptLiveInit /\ [][ScriptNext]_vars /\ RerunFairness

(***************************************************************************)
(* A copy after an analysis that no longer describes the tree: the size of *)
(* a file could not be read when the selection was analysed (line 132), or *)
(* another program wrote a file into a selected folder after the analysis  *)
(* of lines 584-596, which runs again only when the selection changes.     *)
(***************************************************************************)
AnalyzeFoldersMissingSizes == AnalyzeFoldersWith(MaxUnreadable, 0)

\* Another program writes a file into a selected folder between the analysis
\* and the press of the copy button.
EnvAddFileAfterAnalysis ==
    /\ pc = "idle"
    /\ session_state.search_mode = "folder"
    /\ Truthy(session_state.selected_items_to_copy)
    /\ Cardinality(env_added) < MaxAdded
    /\ \E f \in FolderTreePaths \ DOMAIN fs_files :
        /\ f.name \in EnvFileNames
        /\ \E e \in Range(session_state.selected_items_to_copy.items) : f.dir = e.key
        /\ fs_files' = (f :> f) @@ fs_files
        /\ fs_dirs' = fs_dirs \cup {f.dir}
        /\ env_added' = env_added \cup {f}
    /\ UNCHANGED <<session_state, analysis_log, pc, call, loc, messages, opened,
                   helper_call, copy_history>>

\* the sessions of Init whose model stream copies directly into its base
StaleInit == Init /\ session_state.model_copy_mode = "Directly into Base"

StaleNext ==
    \/ AnalyzeFoldersMissingSizes
    \/ AnalyzeFilesUnreadable
    \/ EnvAddFileAfterAnalysis
    \/ CallCopyItems
    \/ PreScan
    \/ BeginCopyPass
    \/ CopyFolderFile
    \/ CopyListedFile
    \/ Complete

StaleSpec == StaleInit /\ [][StaleNext]_vars

(***************************************************************************)
(* What the claims speak about, stated from the specification's words.     *)
(***************************************************************************)
\* the files copy_items has written: their content came from another path
WrittenFiles == {p \in DOMAIN fs_files : fs_files[p] # p}

IsUnder(dir, top) ==
    /\ dir.root = top.root
    /\ Len(dir.rel) >= Len(top.rel)
    /\ SubSeq(dir.rel, 1, Len(top.rel)) = top.rel

\* the origin label the selection gives the folder a source file lies in
OriginLabelOf(source, folder_paths_dict) ==
    (CHOOSE e \in Range(folder_paths_dict.items) : IsUnder(source.dir, e.key)).value

RestrictedOrigin(origin_label) == origin_label = "Exocad"

NameEndsInStl(name) ==
    /\ Len(name) >= 4
    /\ name[Len(name) - 3] = "."
    /\ name[Len(name) - 2] \in {"s", "S"}
    /\ name[Len(name) - 1] \in {"t", "T"}
    /\ name[Len(name)] \in {"l", "L"}

\* "copyable": .stl extension and (origin not restricted or allow-list keyword)
Copyable(name, origin_label) ==
    /\ NameEndsInStl(name)
    /\ \/ ~RestrictedOrigin(origin_label)
       \/ \E keyword \in EXOCAD_ALLOWED_KEYWORDS : Contains(Lower(name), keyword)

\* "tissue": restricted origin and tissue keyword, or other origin and
\* one of the generic substrings
Tissue(name, origin_label) ==
    \/ /\ RestrictedOrigin(origin_label)
       /\ \E keyword \in EXOCAD_TISSUE_KEYWORDS : Contains(Lower(name), keyword)
    \/ /\ ~RestrictedOrigin(origin_label)
       /\ (Contains(Lower(name), KwTissue) \/ Contains(Lower(name), KwGingiva))

\* the files of the selected subtrees
FilesUnderSelection(folder_paths_dict) ==
    {f \in DOMAIN fs_files :
        \E e \in Range(folder_paths_dict.items) : IsUnder(f.dir, e.key)}

\* base path in direct mode, base path + subfolder name in new-subfolder mode
PlannedDir(base_path, copy_mode, subfolder_name) ==
    IF copy_mode = "Directly into Base" \/ Strip(subfolder_name) = <<>> THEN base_path
    ELSE [root |-> base_path.root, rel |-> base_path.rel \o <<Strip(subfolder_name)>>]

ModelTargetDir ==
    PlannedDir(MODEL_BASE_PATH, session_state.model_copy_mode, session_state.model_new_folder_name)

TissueTargetDir ==
    PlannedDir(TISSUE_BASE_PATH, session_state.tissue_copy_mode,
               session_state.tissue_new_folder_name)

FolderModeCall == pc # "idle" /\ call.search_mode = "folder"

FileModeCall == pc # "idle" /\ call.search_mode = "file"

\* C1: in folder mode every file written to a destination ends in .stl and,
\* when its folder's origin is Exocad, contains an allow-list keyword.
C1_OnlyCopyableFilesWritten ==
    FolderModeCall =>
        \A p \in WrittenFiles :
            Copyable(fs_files[p].name, OriginLabelOf(fs_files[p], call.items_to_process))

\* C1 happens: a folder-mode pass has completed, has written a file, and has
\* left behind an Exocad STL file that is outside the allow-list.
C1_Witness ==
    /\ FolderModeCall
    /\ pc = "done"
    /\ WrittenFiles # {}
    /\ \E f \in FilesUnderSelection(call.items_to_process) :
          /\ NameEndsInStl(f.name)
          /\ ~Copyable(f.name, OriginLabelOf(f, call.items_to_process))

\* C2: in folder mode a written file lies in the tissue target directory iff
\* it is classified tissue, and in the model target directory otherwise.
C2_TissueRouting ==
    FolderModeCall =>
        \A p \in WrittenFiles :
            LET origin_label == OriginLabelOf(fs_files[p], call.items_to_process)
            IN  /\ p.name = fs_files[p].name
                /\ p.dir = IF Tissue(fs_files[p].name, origin_label)
                           THEN TissueTargetDir ELSE ModelTargetDir
                /\ (p.dir = TissueTargetDir) <=> Tissue(fs_files[p].name, origin_label)

\* C2 happens: one pass has written a tissue file into a new tissue subfolder
\* and a model file into the model base.
C2_Witness ==
    /\ FolderModeCall
    /\ pc = "done"
    /\ session_state.tissue_copy_mode = "Into a New Subfolder"
    /\ session_state.model_copy_mode = "Directly into Base"
    /\ \E p \in WrittenFiles : p.dir = TissueTargetDir /\ p.dir # TISSUE_BASE_PATH
    /\ \E p \in WrittenFiles : p.dir = MODEL_BASE_PATH

\* the configuration errors of a call: nothing to copy, a required base
\* that is no directory (the tissue base is required when the analysis found
\* tissue files), an invalid subfolder name in new-subfolder mode
NothingToCopy(items_to_process) ==
    items_to_process = PyNone \/ items_to_process.items = <<>>

BadSubfolder(copy_mode, subfolder_name) ==
    copy_mode = "Into a New Subfolder" /\ ~is_valid_foldername(Strip(subfolder_name))

TissueStreamNeeded == session_state.tissue_files_found_in_selection

ConfigurationError(items_to_process, search_mode) ==
    \/ NothingToCopy(items_to_process)
    \/ /\ search_mode = "folder"
       /\ \/ MODEL_BASE_PATH \notin fs_dirs
          \/ TissueStreamNeeded /\ TISSUE_BASE_PATH \notin fs_dirs
          \/ BadSubfolder(session_state.model_copy_mode, session_state.model_new_folder_name)
          \/ /\ TissueStreamNeeded
             /\ BadSubfolder(session_state.tissue_copy_mode,
                             session_state.tissue_new_folder_name)
    \/ /\ search_mode = "file"
       /\ \/ INHOUSE_PRINTING_PATH \notin fs_dirs
          \/ BadSubfolder(session_state.model_copy_mode, session_state.model_new_folder_name)

FilesToAttempt ==
    IF call.search_mode = "folder"
    THEN {f \in FilesUnderSelection(call.items_to_process) :
             Copyable(f.name, OriginLabelOf(f, call.items_to_process))}
    ELSE Range(call.items_to_process.items)

HasCopy(source) == \E p \in WrittenFiles : fs_files[p] = source

CountsAddUpAtCompletion ==
    pc \in {"final", "done"} =>
        /\ loc.current_copied_count + loc.error_count = Len(loc.attempted)
        /\ Range(loc.attempted) = FilesToAttempt
        /\ Cardinality(FilesToAttempt) = Len(loc.attempted)

FailureCountsOnceAndContinues ==
    (pc = "copy" /\ loc'.error_count # loc.error_count)
        => /\ loc'.error_count = loc.error_count + 1
           /\ loc'.current_copied_count = loc.current_copied_count
           /\ Len(loc'.attempted) = Len(loc.attempted) + 1
           /\ pc' = IF Range(loc'.attempted) = FilesToAttempt' THEN "final" ELSE "copy"

\* C4: a file that fails adds exactly one to the error counter and the loop
\* goes on to the next file; when the pass completes every file to attempt
\* has been attempted and copied count + error count = files attempted.
C4_FailureIsCountedAndPassContinues ==
    [][FailureCountsOnceAndContinues]_vars /\ []CountsAddUpAtCompletion

\* C4 happens: a completed pass in which a file failed and a file attempted
\* after it was copied.
C4_Witness ==
    /\ pc = "done"
    /\ loc.error_count = 1
    /\ \E i, j \in 1..Len(loc.attempted) :
          /\ i < j
          /\ ~HasCopy(loc.attempted[i])
          /\ HasCopy(loc.attempted[j])

RECURSIVE SumOfSizes(_)
SumOfSizes(file_paths) ==
    IF file_paths = {} THEN 0
    ELSE LET f == CHOOSE x \in file_paths : TRUE
         IN  GetSize(f) + SumOfSizes(file_paths \ {f})

FoldersAnalysed ==
    /\ pc = "idle"
    /\ session_state.search_mode = "folder"
    /\ session_state.selected_items_to_copy # PyNone

FilesAnalysed ==
    /\ pc = "idle"
    /\ session_state.search_mode = "file"
    /\ session_state.selected_items_to_copy # PyNone

\* the copyable files of the analysed folder selection
CopyableInSelection ==
    {f \in FilesUnderSelection(session_state.selected_items_to_copy) :
        Copyable(f.name, OriginLabelOf(f, session_state.selected_items_to_copy))}

\* the files whose size the analysis could not read: os.path.getsize raised,
\* or the walk could not list a directory above them
SizeUnreadable ==
    analysis_log.stat_fail
    \cup {f \in DOMAIN fs_files : \E d \in analysis_log.walk_fail : IsUnder(f.dir, d)}

\* C5, as stated: the total copyable size of a folder analysis is the sum of
\* the sizes of all files of the selected subtrees that end in .stl and pass
\* the origin allow-list.
C5_TotalIsSumOfCopyableSizes ==
    FoldersAnalysed =>
        session_state.total_copy_selected_size = SumOfSizes(CopyableInSelection)

\* C5, amended: the total copyable size of a folder analysis is the sum of
\* the sizes of the files of the selected subtrees that end in .stl, pass the
\* origin allow-list and whose size could be read; every other file
\* contributes nothing.
C5_TotalIsSumOfReadableCopyableSizes ==
    FoldersAnalysed =>
        session_state.total_copy_selected_size
            = SumOfSizes(CopyableInSelection \ SizeUnreadable)

\* C5 happens: an analysed selection holds a copyable file that was counted
\* and a copyable file whose size could not be read.
C5_Witness ==
    /\ FoldersAnalysed
    /\ session_state.total_copy_selected_size > 0
    /\ CopyableInSelection \cap SizeUnreadable # {}
    /\ CopyableInSelection \ SizeUnreadable # {}

AnalysisEntries == Range(analysis_log.entries)

\* C6: in a folder analysis no file both adds to the display model size and
\* sets the tissue flag, a tissue file never adds to the display model size,
\* and the display model size is the sum over the files that add to it.
C6_TissueAndDisplayExclusiveInFolderAnalysis ==
    FoldersAnalysed =>
        /\ \A entry \in AnalysisEntries :
              LET origin_label ==
                      OriginLabelOf(entry.file, session_state.selected_items_to_copy)
              IN  /\ ~(entry.in_display /\ entry.sets_tissue)
                  /\ entry.in_display => ~Tissue(entry.file.name, origin_label)
                  /\ (entry.in_total /\ Tissue(entry.file.name, origin_label))
                        => entry.sets_tissue
        /\ session_state.display_model_selected_size
              = SumOfSizes({entry.file : entry \in {e \in AnalysisEntries : e.in_display}})
        /\ session_state.tissue_files_found_in_selection
              = (\E entry \in AnalysisEntries : entry.sets_tissue)

\* C6 happens: one analysis met a tissue file whose name holds a display
\* keyword and a model file that was added to the display size.
C6_Witness ==
    /\ FoldersAnalysed
    /\ \E entry \in AnalysisEntries :
          /\ entry.sets_tissue
          /\ Contains(Lower(entry.file.name), KwModel)
    /\ \E entry \in AnalysisEntries : entry.in_display

NamesTissue(name) ==
    Contains(Lower(name), KwTissue) \/ Contains(Lower(name), KwGingiva)

\* C7: in a file analysis a listed file whose name contains 'tissue' or
\* 'gingiva' never adds its size to the display model size, and the display
\* model size is the sum of the sizes of non-tissue files only.
C7_FileAnalysisDisplayCountsNonTissueOnly ==
    FilesAnalysed =>
        /\ \A entry \in AnalysisEntries : NamesTissue(entry.file.name) => ~entry.in_display
        /\ \E counted \in SUBSET {f \in Range(session_state.selected_items_to_copy.items) :
                                    ~NamesTissue(f.name)} :
              session_state.display_model_selected_size = SumOfSizes(counted)

\* the terminal statuses: the success message (with or without its note on
\* errors), the failure message, and the warnings and errors of a call that
\* does nothing
TerminalTexts ==
    {"Successfully copied", "Copy failed.",
     "Attempted copy, but no files matching criteria were transferred",
     "No items selected or found to copy.", "No '.stl' files matching criteria found.",
     "No files found to copy.", "Model Folder Destination invalid",
     "Tissue Destination invalid", "Invalid Model subfolder name.",
     "Invalid Tissue subfolder name.", "InHouse Printing path invalid",
     "Invalid subfolder name.", "Error creating destination"}

TerminalStatusCount ==
    Cardinality({i \in 1..Len(messages) : messages[i].text \in TerminalTexts})

InvocationEnded == pc \in {"returned", "done", "raised"}

\* C9: an invocation of copy_items that has ended has emitted exactly one
\* terminal status, and no invocation ever emits more than one.
C9_ExactlyOneTerminalStatus ==
    /\ TerminalStatusCount <= 1
    /\ InvocationEnded => TerminalStatusCount = 1

RevealNoticeTexts ==
    {"Destination(s) not opened due to errors.",
     "Destination(s) not opened as no files copied."}

RevealNoticeCount ==
    Cardinality({i \in 1..Len(messages) : messages[i].text \in RevealNoticeTexts})

SomeFileCopied == WrittenFiles # {}

SomeFileFailed == \E i \in 1..Len(messages) : messages[i].text = "Error copying"

RevealDue == call.open_destination /\ SomeFileCopied /\ ~SomeFileFailed

DestinationsUsed == {p.dir : p \in WrittenFiles}

\* C10: after a copy pass, folders are revealed iff reveal was requested, a
\* file was copied and no file failed; then every distinct destination
\* directory used is revealed exactly once; when reveal was requested and is
\* not due, nothing is revealed and exactly one notice says so.
C10_RevealOnlyAfterCleanCopy ==
    /\ pc # "done" => opened = <<>>
    /\ pc = "done" =>
          /\ (opened # <<>>) <=> RevealDue
          /\ RevealDue =>
                /\ Range(opened) = DestinationsUsed
                /\ Cardinality(Range(opened)) = Len(opened)
                /\ RevealNoticeCount = 0
          /\ (call.open_destination /\ ~RevealDue) => RevealNoticeCount = 1
          /\ ~call.open_destination => RevealNoticeCount = 0

\* C10 happens: a pass that copied into two destination directories without
\* an error has revealed both.
C10_Witness ==
    /\ pc = "done"
    /\ call.open_destination
    /\ ~SomeFileFailed
    /\ Cardinality(DestinationsUsed) = 2
    /\ Len(opened) = 2

StoredTotal == session_state.total_copy_selected_size

CopyItemsInvoked == pc = "idle" /\ pc' # "idle"

CopySectionShown == pc = "idle" /\ CanShowCopySection

OversizeDisablesButton ==
    (CopySectionShown /\ StoredTotal > SIZE_LIMIT_BYTES) => DisableCopyButton

TotalAtCapDoesNotBlock ==
    (/\ CopySectionShown
     /\ StoredTotal = SIZE_LIMIT_BYTES
     /\ ~ConfigurationError(ItemsToProcess, session_state.search_mode))
        => ~DisableCopyButton

\* C8: while the stored total copy size exceeds SIZE_LIMIT_BYTES the copy
\* button is disabled and no step invokes copy_items, in folder mode and in
\* file mode, whatever the other checks say; a total equal to the cap leaves
\* the button enabled when nothing else disables it.
C8_SizeCapBlocksCopy ==
    /\ []OversizeDisablesButton
    /\ []TotalAtCapDoesNotBlock
    /\ [][CopyItemsInvoked => StoredTotal <= SIZE_LIMIT_BYTES]_vars

\* C8 happens: an analysed folder selection with tissue files whose total is
\* over the cap, and nothing but the size disables the copy button.
C8_Witness ==
    /\ CopySectionShown
    /\ session_state.search_mode = "folder"
    /\ session_state.tissue_files_found_in_selection
    /\ StoredTotal > SIZE_LIMIT_BYTES
    /\ ~ConfigurationError(ItemsToProcess, session_state.search_mode)
    /\ DisableCopyButton

NonStlInSelection ==
    \E f \in FilesUnderSelection(session_state.selected_items_to_copy) : ~NameEndsInStl(f.name)

\* C11: after a folder analysis the non-STL flag is set whenever a file not
\* ending in .stl exists anywhere in a selected subtree, also when that
\* file's size could not be read and when the file is not copyable.
C11_NonStlFlagSetForEveryNonStlFile ==
    (FoldersAnalysed /\ NonStlInSelection) => session_state.non_stl_in_selection

SelectedFolders == {e.key : e \in Range(session_state.selected_items_to_copy.items)}

ReportedEmpty == Range(session_state.empty_selected_folders_list)

\* what listing a folder shows: its immediate subdirectories and files
DirectItems(folder) ==
    {d \in fs_dirs : IsUnder(d, folder) /\ Len(d.rel) = Len(folder.rel) + 1}
    \cup {f \in DOMAIN fs_files : f.dir = folder}

CannotBeOpened(folder) == folder \notin fs_dirs

WalkYieldsNothing(folder) == folder \in analysis_log.walk_fail \/ DirectItems(folder) = {}

\* C12: after a folder analysis a selected folder is in the empty/inaccessible
\* list iff it is no directory or its walk yields no file and no
\* subdirectory; the list names selected folders only, each at most once.
C12_EmptyListNamesEmptyAndInaccessibleFolders ==
    FoldersAnalysed =>
        /\ \A folder \in SelectedFolders :
              (folder \in ReportedEmpty)
                  <=> (CannotBeOpened(folder) \/ WalkYieldsNothing(folder))
        /\ ReportedEmpty \subseteq SelectedFolders
        /\ Len(session_state.empty_selected_folders_list) = Cardinality(ReportedEmpty)

\* C12 happens: of two analysed folders one has gone and is reported, the
\* other holds a subdirectory that cannot be listed and is not reported.
C12_Witness ==
    /\ FoldersAnalysed
    /\ \E folder \in SelectedFolders : CannotBeOpened(folder) /\ folder \in ReportedEmpty
    /\ \E folder \in SelectedFolders :
          /\ folder \notin ReportedEmpty
          /\ \E d \in analysis_log.walk_fail : d \in DirectItems(folder)

\* the files of the analysed folders whose size the analysis read
SizeRead == FilesUnderSelection(session_state.selected_items_to_copy) \ SizeUnreadable

ListedFiles == Range(session_state.selected_items_to_copy.items)

ListedAndRead == ListedFiles \ analysis_log.stat_fail

FolderResultIsDegradedAggregate ==
    LET items == session_state.selected_items_to_copy
        counted == {f \in SizeRead : Copyable(f.name, OriginLabelOf(f, items))}
    IN  /\ PyEq(items, session_state.selected_folder_paths)
        /\ session_state.total_copy_selected_size = SumOfSizes(counted)
        /\ session_state.non_stl_in_selection = (\E f \in SizeRead : ~NameEndsInStl(f.name))
        /\ session_state.tissue_files_found_in_selection
              = (\E f \in counted : Tissue(f.name, OriginLabelOf(f, items)))
        /\ \A folder \in SelectedFolders :
              (folder \in analysis_log.walk_fail \/ CannotBeOpened(folder))
                  => folder \in ReportedEmpty

FileResultIsDegradedAggregate ==
    /\ PyEq(session_state.selected_items_to_copy, session_state.found_file_paths)
    /\ session_state.total_copy_selected_size = SumOfSizes(ListedAndRead)
    /\ session_state.non_stl_in_selection = (\E f \in ListedAndRead : ~NameEndsInStl(f.name))
    /\ session_state.tissue_files_found_in_selection
          = (\E f \in ListedAndRead : NameEndsInStl(f.name) /\ NamesTissue(f.name))
    /\ session_state.empty_selected_folders_list = <<>>

\* C13: both analyses return an aggregate for every combination of stat
\* failures, listing failures and missing folders; a file whose size cannot be
\* read is left out and nothing else is, and a folder that cannot be walked
\* is reported empty/inaccessible while the other folders are analysed in full.
C13_AnalysisIsTotalAndDegradesPerItem ==
    /\ FoldersAnalysed => FolderResultIsDegradedAggregate
    /\ FilesAnalysed => FileResultIsDegradedAggregate

\* C13 happens: in one folder analysis a selected folder could not be listed,
\* a file of another folder could not be read, and a third file was counted.
C13_Witness ==
    /\ FoldersAnalysed
    /\ \E folder \in SelectedFolders :
          /\ folder \in analysis_log.walk_fail
          /\ \E f \in analysis_log.stat_fail : ~IsUnder(f.dir, folder)
    /\ session_state.total_copy_selected_size > 0

(***************************************************************************)
(* The search functions.                                                   *)
(***************************************************************************)
TopLevelSearched == helper_call.function = "search_top_level_folders"

\* the directories directly below a directory
ImmediateChildDirs(parent) ==
    {d \in fs_dirs : /\ d.root = parent.root
                     /\ Len(d.rel) = Len(parent.rel) + 1
                     /\ \A i \in 1..Len(parent.rel) : d.rel[i] = parent.rel[i]}

LastComponent(d) == d.rel[Len(d.rel)]

ContainsIgnoringCase(name, term) == Contains(Lower(name), Lower(term))

\* the (name, path) pairs the folder search owes its caller
ExpectedFolders ==
    {<<LastComponent(d), d>> :
        d \in {c \in ImmediateChildDirs(helper_call.root_dir) :
                  /\ ContainsIgnoringCase(LastComponent(c), helper_call.search_term)
                  /\ LastComponent(c) \notin helper_call.is_dir_raises}}

\* C14: search_top_level_folders returns exactly the immediate children of the
\* root that are directories and whose name contains the term, compared
\* case-insensitively, each once; it returns the empty list when the root is
\* missing or cannot be listed; an entry whose directory check fails is left
\* out and the other entries are still returned.
C14_TopLevelSearchReturnsMatchingChildDirectories ==
    TopLevelSearched =>
        IF helper_call.root_dir \notin fs_dirs \/ helper_call.scan_raises
        THEN helper_call.result = <<>>
        ELSE /\ Range(helper_call.result) = ExpectedFolders
             /\ Len(helper_call.result) = Cardinality(ExpectedFolders)

\* a search whose term matches, in another letter case, a folder that is
\* returned, a folder whose directory check fails, and a file of the root
C14_Witness ==
    /\ TopLevelSearched
    /\ helper_call.root_dir \in fs_dirs
    /\ ~helper_call.scan_raises
    /\ helper_call.search_term # <<>>
    /\ helper_call.result # <<>>
    /\ \E name \in helper_call.is_dir_raises : ContainsIgnoringCase(name, helper_call.search_term)
    /\ \E f \in DOMAIN fs_files :
          f.dir = helper_call.root_dir /\ ContainsIgnoringCase(f.name, helper_call.search_term)
    /\ \E pair \in Range(helper_call.result) : ~Contains(pair[1], helper_call.search_term)

FilesSearched == helper_call.function = "search_files_recursively"

\* the file search went past its entry test (line 54) and walked the root
SearchWalked == FilesSearched /\ helper_call.search_terms # <<>> /\ helper_call.root_dir \in fs_dirs

\* the files below the root that the walk can get to
ReadableBelowRoot ==
    {f \in DOMAIN fs_files :
        /\ IsUnder(f.dir, helper_call.root_dir)
        /\ ~\E d \in helper_call.unlistable : IsUnder(f.dir, d)}

MatchingTerms(name) == {i \in 1..Len(helper_call.search_terms) :
                           ContainsIgnoringCase(name, helper_call.search_terms[i])}

ExpectedFiles == {f \in ReadableBelowRoot : NameEndsInStl(f.name) /\ MatchingTerms(f.name) # {}}

FailedSubtrees ==
    {d \in helper_call.unlistable :
        /\ IsUnder(d, helper_call.root_dir)
        /\ ~\E e \in helper_call.unlistable \ {d} : IsUnder(d, e)}

\* C16: when a subdirectory cannot be read during a file search, the matching
\* files of the readable subtrees are still returned and the access error is
\* shown as a warning.
C16_AccessErrorIsSurfacedAsWarning ==
    (SearchWalked /\ FailedSubtrees # {}) =>
        /\ Range(helper_call.result) = ExpectedFiles
        /\ helper_call.errors # <<>>

\* the part of C16 the code keeps: the readable subtrees' matches are returned
C16_ReadableSubtreesStillSearched ==
    (SearchWalked /\ FailedSubtrees # {}) => Range(helper_call.result) = ExpectedFiles

\* a search that met an unlistable subfolder holding a matching file and
\* returned a match from another subfolder
C16_Witness ==
    /\ SearchWalked
    /\ FailedSubtrees # {}
    /\ helper_call.result # <<>>
    /\ \E f \in DOMAIN fs_files :
          /\ \E d \in FailedSubtrees : IsUnder(f.dir, d)
          /\ NameEndsInStl(f.name) /\ MatchingTerms(f.name) # {}

(***************************************************************************)
(* Copying the same sources again.                                         *)
(***************************************************************************)
DirectMode ==
    /\ session_state.model_copy_mode = "Directly into Base"
    /\ session_state.tissue_copy_mode = "Directly into Base"

\* the copyable source files of the invocation
CopySources ==
    IF call.search_mode = "file" THEN Range(call.items_to_process.items)
    ELSE {f \in FilesUnderSelection(call.items_to_process) \ WrittenFiles :
             Copyable(f.name, OriginLabelOf(f, call.items_to_process))}

\* where a source file is written: its own name in its stream's directory
DestinationOf(f) ==
    IF call.search_mode = "file"
    THEN [dir |-> PlannedDir(INHOUSE_PRINTING_PATH, session_state.model_copy_mode,
                             session_state.model_new_folder_name),
          name |-> f.name]
    ELSE [dir |-> IF Tissue(f.name, OriginLabelOf(f, call.items_to_process))
                  THEN TissueTargetDir ELSE ModelTargetDir,
          name |-> f.name]

DestinationContent == [p \in WrittenFiles |-> fs_files[p]]

\* a second copy of the same sources has completed, and neither it nor the
\* copy before it met a failing file
CopiedTwiceWithoutFailure ==
    /\ pc = "done"
    /\ copy_history # <<>>
    /\ loc.error_count = 0
    /\ copy_history[Len(copy_history)].error_count = 0

SecondCopyChangesNothing ==
    (CopiedTwiceWithoutFailure /\ DirectMode) =>
        DestinationContent = copy_history[Len(copy_history)].written

NameChecked == helper_call.function = "is_valid_foldername"

ForbiddenCharacters == {"<", ">", ":", "\"", "/", "\\", "|", "?", "*"}

\* the control characters (codes 0 to 31) a name of the model can hold
ControlCharacters == {"\t", "\n", "\r", "\f"}

DeviceNames ==
    {<<"C","O","N">>, <<"P","R","N">>, <<"A","U","X">>, <<"N","U","L">>,
     <<"C","O","M","1">>, <<"C","O","M","2">>, <<"C","O","M","3">>, <<"C","O","M","4">>,
     <<"C","O","M","5">>, <<"C","O","M","6">>, <<"C","O","M","7">>, <<"C","O","M","8">>,
     <<"C","O","M","9">>, <<"L","P","T","1">>, <<"L","P","T","2">>, <<"L","P","T","3">>,
     <<"L","P","T","4">>, <<"L","P","T","5">>, <<"L","P","T","6">>, <<"L","P","T","7">>,
     <<"L","P","T","8">>, <<"L","P","T","9">>}

\* the name is a device name, in any letter case, alone or followed by a
\* period and anything: the extension starts at the first period
IsDeviceName(name) ==
    \E device \in DeviceNames :
        /\ Len(name) >= Len(device)
        /\ \A i \in 1..Len(device) : UpperChar(name[i]) = device[i]
        /\ (Len(name) = Len(device) \/ name[Len(device) + 1] = ".")

MustBeRejected(name) ==
    \/ name = <<>>
    \/ \E i \in 1..Len(name) : name[i] \in ForbiddenCharacters \cup ControlCharacters
    \/ IsDeviceName(name)
    \/ (name # <<>> /\ name[Len(name)] \in {".", " "})

RejectedExamples ==
    { <<>>, <<"a","/","b">>, <<"C","O","N">>, <<"c","o","n",".","t","x","t">>,
      <<"n","a","m","e",".">>, <<"n","a","m","e"," ">> }

AcceptedExamples == { <<"P","r","o","j","e","c","t","_","2","0","2","5">> }

\* C18: is_valid_foldername rejects the empty name, a name with a control
\* character or one of < > : " / \ | ? *, a name whose part before the
\* extension is a reserved device name in any letter case, and a name ending
\* in a period or a space, and accepts every other name; it rejects "", "a/b",
\* "CON", "con.txt", "name." and "name " and accepts "Project_2025".
C18_FolderNameCheck ==
    NameChecked =>
        /\ helper_call.result = ~MustBeRejected(helper_call.foldername)
        /\ helper_call.foldername \in RejectedExamples => ~helper_call.result
        /\ helper_call.foldername \in AcceptedExamples => helper_call.result

\* a lower-case device name with an extension was checked and rejected
C18_Witness ==
    /\ NameChecked
    /\ helper_call.foldername = <<"c","o","n",".","t","x","t">>
    /\ ~helper_call.result

(***************************************************************************)
(* The script between its runs.                                            *)
(***************************************************************************)
\* the search roots that are selected when a run ends: the roots whose box
\* is checked and whose path is a directory; after Reset Search the boxes
\* are about to be put back to their defaults (lines 418-419)
SelectedRoots ==
    IF session_state.app_just_reset
    THEN {path_name \in {"Model Material"} : IsDir(RootDir(PREDEFINED_PATHS[path_name]))}
    ELSE {path_name \in Range(PathLabels) :
             /\ session_state.checkbox[path_name] = "checked"
             /\ IsDir(RootDir(PREDEFINED_PATHS[path_name]))}

ARunHasEnded == \A path_name \in Range(PathLabels) : session_state.checkbox[path_name] # "missing"

\* C19: at the end of every script run the stored search mode is 'file' when
\* InHouse Printing is the only selected root and 'folder' in every other case
\* (no root, only other roots, InHouse Printing together with other roots),
\* and it agrees in the same way with the stored list of selected roots.
C19_SearchModeFollowsSelectedRoots ==
    ARunHasEnded =>
        /\ session_state.search_mode =
              (IF SelectedRoots = {"InHouse Printing"} THEN "file" ELSE "folder")
        /\ session_state.search_mode =
              (IF session_state.selected_search_paths = <<PREDEFINED_PATHS["InHouse Printing"]>>
               THEN "file" ELSE "folder")

\* a run has ended with InHouse Printing and another root both selected
C19_Witness ==
    /\ ARunHasEnded
    /\ "InHouse Printing" \in SelectedRoots
    /\ Cardinality(SelectedRoots) >= 2
    /\ session_state.search_mode = "folder"

\* the script waits for the user in folder mode
AtRestInFolderMode == pc = "idle" /\ ARunHasEnded /\ session_state.search_mode = "folder"

NoFolderSelected == ~Truthy(session_state.selected_folder_paths)

StoredResultsAreDefaults ==
    /\ session_state.selected_items_to_copy = PyNone
    /\ session_state.total_copy_selected_size = 0
    /\ session_state.display_model_selected_size = 0
    /\ ~session_state.non_stl_in_selection
    /\ ~session_state.tissue_files_found_in_selection
    /\ session_state.empty_selected_folders_list = <<>>

NothingOfAnAnalysisShown ==
    /\ SidebarEmptyNotice(session_state) = <<>>
    /\ ~SidebarShowsSizes(session_state)

\* C20: once the user has deselected every folder and the script has come to
\* rest, the stored analysis results (items to copy, total copy size, display
\* model size, non-STL flag, tissue flag, empty-folder list) are back at their
\* defaults and nothing of the previous selection's analysis is shown.
C20_EmptySelectionClearsAnalysis ==
    (AtRestInFolderMode /\ NoFolderSelected) =>
        StoredResultsAreDefaults /\ NothingOfAnAnalysisShown

\* the part of C20 the code keeps: a selection that is not empty is analysed
\* anew, and what is stored is the analysis of that selection
C20_SelectionInForceIsAnalysed ==
    (AtRestInFolderMode /\ MultiselectShown /\ ~NoFolderSelected) =>
        LET result == get_recursive_folder_details(session_state.selected_folder_paths, {}, {})
        IN  /\ PyEq(session_state.selected_items_to_copy, session_state.selected_folder_paths)
            /\ session_state.total_copy_selected_size = result.total_copy_size_bytes
            /\ session_state.display_model_selected_size = result.display_model_size_bytes
            /\ session_state.non_stl_in_selection = result.non_stl_found
            /\ session_state.tissue_files_found_in_selection = result.tissue_files_present
            /\ Range(session_state.empty_selected_folders_list)
                  = Range(result.empty_folders_encountered)

\* every folder was deselected and the sidebar still names a folder of the
\* previous selection as empty or inaccessible
C20_StaleNoticeShown ==
    /\ AtRestInFolderMode
    /\ NoFolderSelected
    /\ SidebarEmptyNotice(session_state) # <<>>
    /\ session_state.selected_items_to_copy # PyNone

\* the script waits for the user: no rerun is pending
Settled == pc = "idle" /\ ARunHasEnded

MixedSelection ==
    /\ "InHouse Printing" \in SelectedRoots
    /\ Cardinality(SelectedRoots) >= 2

ParsedTerms == SplitTerms(session_state.search_terms)

\* the folders the search owes for the current roots and terms: the union of
\* search_top_level_folders over every selected root and every term
CurrentSearchResult ==
    UNION {{pair[2] : pair \in Range(search_top_level_folders(
                                         RootDir(PREDEFINED_PATHS[path_name]), term, FALSE, {}))} :
              <<path_name, term>> \in SelectedRoots \X Range(ParsedTerms)}

CachedFolders == {entry.key : entry \in Range(session_state.found_folders_cache.items)}

FolderSearchInForce ==
    /\ Settled
    /\ session_state.search_mode = "folder"
    /\ SelectedRoots # {}
    /\ ~MixedSelection
    /\ ParsedTerms # <<>>

\* C21: in folder mode, once the script has settled with at least one selected
\* root, a selection that is not mixed and at least one parsed term, the
\* found-folder cache holds exactly the folders the search finds for the
\* current roots and terms, whatever inputs came before.
C21_FolderCacheIsCurrentSearchResult ==
    FolderSearchInForce => CachedFolders = CurrentSearchResult

\* the part of C21 the code keeps: the cache never holds a folder the search
\* for the current roots and terms would not find
C21_CacheHoldsOnlyCurrentMatches ==
    FolderSearchInForce => CachedFolders \subseteq CurrentSearchResult

\* the script has settled with roots and terms whose search finds a folder,
\* the roots and terms are those of the last search, and the cache is empty
C21_CacheLostAfterEquivalentInput ==
    /\ FolderSearchInForce
    /\ CurrentSearchResult # {}
    /\ CachedFolders = {}
    /\ Range(ParsedTerms) = Range(session_state.last_search_terms)
    /\ Range(session_state.selected_search_paths) = Range(session_state.last_selected_paths)

(***************************************************************************)
(* Copying after a stale analysis.                                         *)
(***************************************************************************)
\* this step of a folder-mode copy_items writes a file below the tissue base
TissueFileWritten ==
    /\ FolderModeCall
    /\ \E p \in DOMAIN fs_files' :
          /\ IsUnder(p.dir, TISSUE_BASE_PATH)
          /\ (p \notin DOMAIN fs_files \/ fs_files'[p] # fs_files[p])

\* the tissue checks of this invocation: no step of copy_items changes the
\* stored flag, the copy plan, or removes a directory, so what the
\* validation saw is still to be seen when the file is written
TissueBaseWasChecked ==
    /\ session_state.tissue_files_found_in_selection
    /\ IsDir(TISSUE_BASE_PATH)

TissueNameWasChecked ==
    session_state.tissue_copy_mode = "Into a New Subfolder" =>
        /\ session_state.tissue_files_found_in_selection
        /\ is_valid_foldername(Strip(session_state.tissue_new_folder_name))

\* C22: in folder-mode copy_items a file is written to the tissue destination
\* only when that invocation checked the tissue base path to be an existing
\* directory and, in new-subfolder mode, the tissue subfolder name to be
\* valid, whatever the stored tissue flag says.
C22_TissueWriteOnlyAfterTissueChecks ==
    [][TissueFileWritten => (TissueBaseWasChecked /\ TissueNameWasChecked)]_vars

\* the part of C22 the code keeps: when the stored flag is set, a tissue file
\* is written only to an existing base and under a valid subfolder name
C22_ChecksRunWhenFlagIsSet ==
    [][(TissueFileWritten /\ session_state.tissue_files_found_in_selection) =>
          /\ IsDir(TISSUE_BASE_PATH)
          /\ (session_state.tissue_copy_mode = "Into a New Subfolder" =>
                 is_valid_foldername(Strip(session_state.tissue_new_folder_name)))]_vars

\* a tissue file lies below the tissue base although the analysis saw no
\* tissue file and the tissue subfolder name is not a valid folder name
C22_TissueWrittenUnchecked ==
    /\ FolderModeCall
    /\ ~session_state.tissue_files_found_in_selection
    /\ session_state.tissue_copy_mode = "Into a New Subfolder"
    /\ ~is_valid_foldername(Strip(session_state.tissue_new_folder_name))
    /\ \E p \in WrittenFiles : IsUnder(p.dir, TISSUE_BASE_PATH)

\* the source files this invocation has copied
CopiedSources == {fs_files[p] : p \in WrittenFiles}

\* the tree is the one the analysis walked: no file was added since
SameTreeAsAnalysed == env_added = {}

CountedInTotal(f) == \E entry \in AnalysisEntries : entry.file = f /\ entry.in_total

\* C23: for the same folder selection and file tree, every file the
\* folder-mode copy pass copies had its size added to the total copyable size
\* by get_recursive_folder_details, so the copied bytes never exceed the
\* total the size-cap gate checks; also when a size could not be read during
\* the analysis.
C23_TotalBoundsCopiedBytes ==
    (FolderModeCall /\ SameTreeAsAnalysed) =>
        /\ \A f \in CopiedSources : CountedInTotal(f)
        /\ SumOfSizes(CopiedSources) <= session_state.total_copy_selected_size

\* the part of C23 the code keeps: when every size could be read, the copied
\* files are files the analysis counted and the total bounds their bytes
C23_TotalBoundsCopiedBytesWhenSizesWereRead ==
    (FolderModeCall /\ SameTreeAsAnalysed /\ analysis_log.stat_fail = {}) =>
        /\ \A f \in CopiedSources : CountedInTotal(f)
        /\ SumOfSizes(CopiedSources) <= session_state.total_copy_selected_size

\* a file whose size the analysis could not read was copied, and the copied
\* bytes exceed the analysed total
C23_CopiedMoreThanTotal ==
    /\ FolderModeCall
    /\ SameTreeAsAnalysed
    /\ CopiedSources \cap analysis_log.stat_fail # {}
    /\ SumOfSizes(CopiedSources) > session_state.total_copy_selected_size

(***************************************************************************)
(* Progress of the folder-mode copy pass.                                  *)
(***************************************************************************)
\* the pre-scan of this folder-mode invocation has set its total
PreScanDone == FolderModeCall /\ pc \in {"pass", "copy", "final", "done", "raised"}

\* C24: during a folder-mode copy pass the copied count never exceeds the
\* total the pre-scan established, so the fraction copied/total handed to the
\* progress bar lies in [0, 1] and the bar accepts it; also when files are
\* added to a source folder between the pre-scan and the copy pass.
C24_CopiedCountWithinPreScanTotal ==
    PreScanDone =>
        /\ 0 <= loc.current_copied_count
        /\ loc.current_copied_count <= loc.total_stl_to_copy
        /\ pc # "raised"

\* the part of C24 the code keeps: when no file is added between the pre-scan
\* and the copy pass, the copied count stays within the total
C24_CopiedCountWithinTotalOfUnchangedTree ==
    (PreScanDone /\ env_added = {}) =>
        /\ loc.current_copied_count <= loc.total_stl_to_copy
        /\ pc # "raised"

\* a file was added after the pre-scan, more files were copied than the
\* pre-scan counted, and the progress bar rejected the fraction
C24_ProgressAboveOne ==
    /\ PreScanDone
    /\ env_added # {}
    /\ loc.current_copied_count > loc.total_stl_to_copy
    /\ pc = "raised"

(***************************************************************************)
(* Mixed selections and chains of reruns.                                  *)
(***************************************************************************)
\* the discoveries the runs since the user's last input have made
DiscoveriesShown ==
    {i \in 1..Len(messages) :
        messages[i].text \in {"Searching folders...", "Searching files for: ..."}}

\* the analyses the runs since the user's last input have made
AnalysesShown ==
    {i \in 1..Len(messages) :
        messages[i].text \in {"Analyzing contents...", "Analyzing found files..."}}

\* the copy button is on the page, the only place copy_items is called from
CopyItemsCanBeInvoked == CopySectionShownIn(session_state)

\* C25: while InHouse Printing is selected together with at least one other
\* root, no discovery is run, the found-folder cache and the found-file cache
\* are empty and copy_items cannot be invoked, whatever had been found,
\* selected and analysed before the selection became mixed.
C25_MixedSelectionBlocksSearchAndCopy ==
    (ARunHasEnded /\ MixedSelection) =>
        /\ DiscoveriesShown = {}
        /\ ~Truthy(session_state.found_folders_cache)
        /\ ~Truthy(session_state.found_file_paths)
        /\ ~CopyItemsCanBeInvoked

\* the script has settled on a mixed selection, with terms entered, after a
\* search had found and stored something for the roots selected before
C25_Witness ==
    /\ Settled
    /\ MixedSelection
    /\ ParsedTerms # <<>>
    /\ session_state.last_search_terms # <<>>
    /\ \E i \in 1..Len(messages) : messages[i].text = "Mixed Mode Error"

\* a run is due: st.rerun() ended the last one
RerunPending == pc = "rerun"

\* the runs of the chain that ended with st.rerun()
RerunsOfChain == {i \in 1..Len(messages) : messages[i].text = "st.rerun()"}

====
